---- MODULE Spec2Model ----
(***************************************************************************)
(* A model of the used-car pipeline: the cleaning stage (etl/run.py,       *)
(* etl/processor.py), the feature derivation (feature/run.py,              *)
(* models/train.py, api/feature_processor.py, api/model_loader.py) and the *)
(* orchestration script (pipeline.py).                                     *)
(*                                                                         *)
(* Conventions.  A text value is a sequence of one-character strings.  A   *)
(* missing text (pandas NaN in an object column) is NullStr.  A nullable   *)
(* number is <<>> (NaN) or <<v>>.  Prices are counted in hundredths, years *)
(* and ages in quarters of a year, so that the fractions the code can      *)
(* produce are integers of the model.                                      *)
(***************************************************************************)
EXTENDS Integers, Sequences, FiniteSets, TLC

VARIABLES
    price_fmt,     \* clean_price: how the raw price was written (its pieces)
    price_in,      \* clean_price: the raw price_list value
    price_out,     \* clean_price: the price_clean value
    price_pc       \* clean_price: "start" | "done"

priceVars == << price_fmt, price_in, price_out, price_pc >>

VARIABLES
    der_path,      \* derived features: "train" (a cleaned row) | "serve" (a request)
    der_ano,       \* the year (ano_limpo, or the request's ano), in quarters
    der_km,        \* the mileage (quilometragem_clean, or the request's
                   \* quilometragem): NaN or a number of km
    der_age,       \* car_age, in quarters of a year
    der_kmfill,    \* the zero-filled mileage
    der_kmy,       \* km_per_year, a quotient [num, den]
    der_pc         \* "start" | "done"

derVars == << der_path, der_ano, der_km, der_age, der_kmfill, der_kmy, der_pc >>

VARIABLES
    bk_in,         \* bucketing: the value counts of the table first given
    bk_states,     \* bucketing: rows per state_clean value
    bk_brands,     \* bucketing: rows per marca value (BRAND_OTHER included)
    bk_missing,    \* bucketing: rows whose marca is missing
    bk_state_of,   \* the state_clean now held by the rows of each original state
    bk_brand_of,   \* the marca now held by the rows of each original brand
    bk_passes      \* how many times the bucketing steps have been applied

bkVars == << bk_in, bk_states, bk_brands, bk_missing, bk_state_of, bk_brand_of,
             bk_passes >>

VARIABLES
    pl_fs,         \* pipeline.py: the files that exist under the project root
    pl_cmd,        \* the subcommand given
    pl_skip,       \* the --skip-checks flag
    pl_deps,       \* whether every dependency can be imported
    pl_pc,         \* "main" | "run" | "finish" | "exit"
    pl_step,       \* run_pipeline: index of the step to run next
    pl_called,     \* the stages whose run_* function has been called, in order
    pl_returned,   \* what each of those calls returned
    pl_outcomes,   \* how subprocess.run ended in each of those calls
    pl_told,       \* the stages the operator has been told to run first
    pl_launched,   \* the stages whose script was started as a subprocess
    pl_success,    \* the value the command function returned
    pl_exit        \* the exit code of the process, -1 while it runs

plVars == << pl_fs, pl_cmd, pl_skip, pl_deps, pl_pc, pl_step, pl_called,
             pl_returned, pl_outcomes, pl_told, pl_launched, pl_success,
             pl_exit >>

VARIABLES
    loc_in,        \* limpar_colunas_localizacao: the state and city of the row
    loc_kept,      \* whether the row is in the table returned
    loc_state,     \* its state_clean
    loc_city,      \* its city_clean
    loc_pc         \* "start" | "done"

locVars == << loc_in, loc_kept, loc_state, loc_city, loc_pc >>

VARIABLES
    cl_now,        \* clean_data: datetime.now().year
    cl_raw,        \* the table given to clean_data
    cl_df,         \* the table df as it stands: a sequence of rows
    cl_cols,       \* the columns of df
    cl_pc          \* the call of clean_data that runs next

clVars == << cl_now, cl_raw, cl_df, cl_cols, cl_pc >>

VARIABLES
    bo_in,         \* clean_boolean_columns: the values of one object column
    bo_out,        \* the values of the column in the table returned
    bo_coerced,    \* whether the column was among boolean_columns
    bo_pc          \* "start" | "done"

boVars == << bo_in, bo_out, bo_coerced, bo_pc >>

VARIABLES
    tr_fs,         \* models/train.py: the data files and artifacts on disk
    tr_cols,       \* the columns of the cleaned table on disk
    tr_read,       \* the file load_and_prep_data read, "none" before
    tr_X,          \* X_columns as load_and_prep_data returned it
    tr_written,    \* the files the run wrote
    tr_pc,         \* the call of main that runs next, "ended" after it
    tr_exit        \* the exit code of the process, -1 while it runs

trVars == << tr_fs, tr_cols, tr_read, tr_X, tr_written, tr_pc, tr_exit >>

VARIABLES
    sv_trained,    \* api: the vocabularies computed when the artifact on disk
                   \* was trained, as a set of at most one record
    sv_corpus,     \* the cleaned table on disk, as a set of at most one
    sv_pc,         \* "created" | "serving" | "failed"
    sv_model,      \* model_loader.model is not None
    sv_top,        \* model_loader.top_20_brands, { } for None
    sv_rare,       \* model_loader.rare_states, { } for None
    sv_expected,   \* the columns of model_loader.training_data that
                   \* get_expected_columns returns, each with its dtype;
                   \* { } for None
    sv_req,        \* the last predict request, as a set of at most one
    sv_feat,       \* the table prepare_features returned for it
    sv_raised,     \* whether model.predict raised on that table
    sv_resp,       \* the response to it: "none" | "prediction" | "error"
    sv_prev        \* the response to the request before it

svVars == << sv_trained, sv_corpus, sv_pc, sv_model, sv_top, sv_rare,
             sv_expected, sv_req, sv_feat, sv_raised, sv_resp, sv_prev >>

VARIABLES
    st_stage,      \* a stage run as a script: "etl" (etl/run.py) |
                   \* "feature" (feature/run.py)
    st_in,         \* its input file: whether it exists, its rows and columns
    st_survive,    \* etl: how many rows clean_data leaves
    st_allconst,   \* etl: whether every column is constant over those rows
    st_out,        \* its output file: "absent" | "old" | "new" (written by this run)
    st_exit,       \* the exit code of the process, -1 while it runs
    st_pc          \* "start" | "done"

stVars == << st_stage, st_in, st_survive, st_allconst, st_out, st_exit, st_pc >>

VARIABLES
    rg_col,        \* clean_km / clean_motor / clean_portas: the raw column cleaned
    rg_raw,        \* one raw value of it: its text (txt) or, for the numeric
                   \* column quilometragem, its number (num); value is the
                   \* number the raw value states, in hundredths, NaN if none
    rg_out,        \* the cleaned value, in hundredths (NaN: null)
    rg_rows,       \* how many rows the one-row table has afterwards
    rg_pc          \* "start" | "done"

rgVars == << rg_col, rg_raw, rg_out, rg_rows, rg_pc >>

VARIABLES
    cq_loaded,     \* concurrent requests: what model_loader holds after load
    cq_req,        \* the request each handler received
    cq_row,        \* the single-row table each handler built (<< >>: none yet)
    cq_resp,       \* the response each handler returned (status 0: not yet)
    cq_pc          \* each handler: "received" | "built" | "done"

cqVars == << cq_loaded, cq_req, cq_row, cq_resp, cq_pc >>

lateVars == << boVars, trVars, svVars, stVars, rgVars, cqVars >>

vars == << priceVars, derVars, bkVars, plVars, locVars, clVars, lateVars >>

-----------------------------------------------------------------------------
(* Values and text helpers                                                 *)

\* a missing text value (NaN in an object column)
NullStr == << "NaN" >>

\* a missing number (NaN in a float column)
NaN == << >>

Num(v) == << v >>

IsNum(x) == Len(x) = 1

Val(x) == x[1]

Digits == { "0", "1", "2", "3", "4", "5", "6", "7", "8", "9" }

\* Series.astype(str): NaN becomes the text 'nan'
AsStr(s) == IF s = NullStr THEN << "n", "a", "n" >> ELSE s

\* str.replace(r'[...]', '', regex=True): every character of the class removed
RemoveChars(s, class) ==
    LET keep(c) == c \notin class
    IN  SelectSeq(s, keep)

\* str.replace(a, b, regex=False) for one-character a and b
ReplaceChar(s, a, b) == [ i \in 1..Len(s) |-> IF s[i] = a THEN b ELSE s[i] ]

Whitespace == { " " }

RECURSIVE LStrip(_)
LStrip(s) == IF s # << >> /\ Head(s) \in Whitespace THEN LStrip(Tail(s)) ELSE s

RECURSIVE RStrip(_)
RStrip(s) ==
    IF s # << >> /\ s[Len(s)] \in Whitespace
    THEN RStrip(SubSeq(s, 1, Len(s) - 1))
    ELSE s

\* str.strip()
Strip(s) == RStrip(LStrip(s))

\* Every number above MaxMagnitude is held as MaxMagnitude: it lies above
\* every range limit of the code, which is all the code asks of it.
MaxMagnitude == 2000000

Sat(n) == IF n > MaxMagnitude THEN MaxMagnitude ELSE n

RECURSIVE DigitsValue(_)
DigitsValue(s) ==
    IF s = << >> THEN 0
    ELSE LET DigitVal(c) ==
                 CASE c = "0" -> 0 [] c = "1" -> 1 [] c = "2" -> 2 [] c = "3" -> 3
                   [] c = "4" -> 4 [] c = "5" -> 5 [] c = "6" -> 6 [] c = "7" -> 7
                   [] c = "8" -> 8 [] c = "9" -> 9
         IN  Sat(10 * DigitsValue(SubSeq(s, 1, Len(s) - 1)) + DigitVal(s[Len(s)]))

\* pd.to_numeric(errors='coerce') on a text: an unsigned decimal literal
\* (digits, at most one ".", at least one digit) gives its value in
\* hundredths; anything else gives NaN.  The texts of this model carry at
\* most two digits after the point.
ToNumeric(s) ==
    LET AllDigits(t) == \A i \in 1..Len(t) : t[i] \in Digits
        d    == IF \E i \in 1..Len(s) : s[i] = "."
                THEN CHOOSE i \in 1..Len(s) :
                         s[i] = "." /\ \A j \in 1..(i - 1) : s[j] # "."
                ELSE 0
        ip   == IF d = 0 THEN s ELSE SubSeq(s, 1, d - 1)
        fp   == IF d = 0 THEN << >> ELSE SubSeq(s, d + 1, Len(s))
        frac == IF Len(fp) = 0 THEN 0
                ELSE IF Len(fp) = 1 THEN 10 * DigitsValue(fp)
                ELSE DigitsValue(SubSeq(fp, 1, 2))
    IN  IF AllDigits(ip) /\ AllDigits(fp) /\ Len(ip) + Len(fp) > 0
        THEN Num(100 * DigitsValue(ip) + frac)
        ELSE NaN

-----------------------------------------------------------------------------
(* clean_price                                                             *)

\* lowest and highest plausible price
PRICE_MIN == 1000
PRICE_MAX == 1000000

\* the range test with both comparisons made non-strict
PriceOutOfRangeClosed(v) == v <= 100 * PRICE_MIN \/ v >= 100 * PRICE_MAX

\* (df['price_clean'] < 1000) | (df['price_clean'] > 1000000), v in hundredths
PriceOutOfRange(v) == v < 100 * PRICE_MIN \/ v > 100 * PRICE_MAX

\* clean_price on one raw value
CleanPriceValue(raw) ==
    LET s1 == RemoveChars(AsStr(raw), { "R", "$", "." })
        s2 == ReplaceChar(s1, ",", ".")
        s3 == Strip(s2)
        n  == ToNumeric(s3)
    IN  IF IsNum(n) /\ PriceOutOfRange(Val(n)) THEN NaN ELSE n

-----------------------------------------------------------------------------
(* Raw prices written in the currency format: an optional "R$", groups of  *)
(* digits with or without "." between them, an optional "," and centavos.  *)
(* Each piece carries its text and the number the text stands for.         *)

MaxGroups == 2

PriceFormats ==
    LET PricePrefixes == { << >>, << "R", "$" >>, << "R", "$", " " >> }
        LeadGroups ==
            { [ txt |-> << "1" >>, n |-> 1 ],
              [ txt |-> << "9" >>, n |-> 9 ],
              [ txt |-> << "4", "5" >>, n |-> 45 ],
              [ txt |-> << "9", "9", "9" >>, n |-> 999 ] }
        ThousandGroups ==
            { [ txt |-> << "0", "0", "0" >>, n |-> 0 ],
              [ txt |-> << "0", "0", "1" >>, n |-> 1 ],
              [ txt |-> << "9", "9", "9" >>, n |-> 999 ] }
        Centavos ==
            { [ txt |-> << >>, n |-> 0 ],
              [ txt |-> << ",", "0", "0" >>, n |-> 0 ],
              [ txt |-> << ",", "0", "1" >>, n |-> 1 ],
              [ txt |-> << ",", "5" >>, n |-> 50 ],
              [ txt |-> << ",", "9", "9" >>, n |-> 99 ] }
        GroupSeqs == UNION { [ 1..k -> ThousandGroups ] : k \in 0..MaxGroups }
    IN  [ prefix : PricePrefixes, lead : LeadGroups, groups : GroupSeqs,
          dots : BOOLEAN, cents : Centavos ]

RECURSIVE RenderGroups(_, _)
RenderGroups(gs, dots) ==
    IF gs = << >> THEN << >>
    ELSE (IF dots THEN << "." >> ELSE << >>) \o Head(gs).txt
             \o RenderGroups(Tail(gs), dots)

\* the text of a price written in format f
RenderPrice(f) ==
    f.prefix \o f.lead.txt \o RenderGroups(f.groups, f.dots) \o f.cents.txt

RECURSIVE GroupsNumber(_, _)
GroupsNumber(acc, gs) ==
    IF gs = << >> THEN acc
    ELSE GroupsNumber(Sat(1000 * acc + Head(gs).n), Tail(gs))

\* the number a price written in format f stands for, in hundredths
PriceNumber(f) == 100 * GroupsNumber(f.lead.n, f.groups) + f.cents.n

-----------------------------------------------------------------------------
(* Case conversion and the word boundary of the regular expressions        *)

LowerLetters ==
    << "a", "b", "c", "d", "e", "f", "g", "h", "i", "j", "k", "l", "m",
       "n", "o", "p", "q", "r", "s", "t", "u", "v", "w", "x", "y", "z" >>

UpperLetters ==
    << "A", "B", "C", "D", "E", "F", "G", "H", "I", "J", "K", "L", "M",
       "N", "O", "P", "Q", "R", "S", "T", "U", "V", "W", "X", "Y", "Z" >>

LetterIndex(letters, c) ==
    IF \E i \in 1..26 : letters[i] = c
    THEN CHOOSE i \in 1..26 : letters[i] = c
    ELSE 0

\* str.upper()
Upper(s) ==
    LET upper(c) == IF LetterIndex(LowerLetters, c) = 0 THEN c
                    ELSE UpperLetters[LetterIndex(LowerLetters, c)]
    IN  [ i \in 1..Len(s) |-> upper(s[i]) ]

\* str.lower()
Lower(s) ==
    LET lower(c) == IF LetterIndex(UpperLetters, c) = 0 THEN c
                    ELSE LowerLetters[LetterIndex(UpperLetters, c)]
    IN  [ i \in 1..Len(s) |-> lower(s[i]) ]

\* \b between positions i and i+1 of s (i = 0: the start, i = Len(s): the end)
Boundary(s, i) ==
    LET IsWordChar(c) ==      \* \w of the regular expressions
            \/ c \in Digits
            \/ LetterIndex(LowerLetters, c) # 0
            \/ LetterIndex(UpperLetters, c) # 0
            \/ c = "_"
        before == i >= 1 /\ IsWordChar(s[i])
        after  == i < Len(s) /\ IsWordChar(s[i + 1])
    IN  before # after

-----------------------------------------------------------------------------
(* limpar_colunas_localizacao                                              *)

UFS_BRASIL ==
    { << "A", "C" >>, << "A", "L" >>, << "A", "M" >>, << "A", "P" >>,
      << "B", "A" >>, << "C", "E" >>, << "D", "F" >>, << "E", "S" >>,
      << "G", "O" >>, << "M", "A" >>, << "M", "G" >>, << "M", "S" >>,
      << "M", "T" >>, << "P", "A" >>, << "P", "B" >>, << "P", "E" >>,
      << "P", "I" >>, << "P", "R" >>, << "R", "J" >>, << "R", "N" >>,
      << "R", "O" >>, << "R", "R" >>, << "R", "S" >>, << "S", "C" >>,
      << "S", "E" >>, << "S", "P" >>, << "T", "O" >> }

\* lines 12-13: the state field upper-cased and trimmed, NaN unless a valid code
StateFromField(state) ==
    LET t == Strip(Upper(AsStr(state)))
    IN  IF t \in UFS_BRASIL THEN t ELSE NullStr

\* lines 18-19 (and 21-22): lower-cased and trimmed, 'nan' read as NaN
LowerTrimmed(text) ==
    LET t == Strip(Lower(AsStr(text)))
    IN  IF t = << "n", "a", "n" >> THEN NullStr ELSE t

\* re.search(r'\b(AC|AL|...|TO)$', text): the code the text ends with, after
\* a word boundary; NullStr when there is no match
TrailingCode(text) ==
    LET n == Len(text)
    IN  IF /\ n >= 2
           /\ SubSeq(text, n - 1, n) \in UFS_BRASIL
           /\ Boundary(text, n - 2)
        THEN SubSeq(text, n - 1, n)
        ELSE NullStr

\* the fallback that never looks at the city
NoFallback(state0, city0) == state0

\* try_extract_state_from_city, lines 24-29
TryExtractStateFromCity(state0, city0) ==
    IF state0 = NullStr /\ city0 # NullStr /\ TrailingCode(Upper(city0)) # NullStr
    THEN TrailingCode(Upper(city0))
    ELSE state0

\* re.sub(r'\b' + state + r'$', '', city, flags=re.IGNORECASE).strip(),
\* lines 33-37
StripStateSuffix(state1, city0) ==
    IF state1 # NullStr /\ city0 # NullStr
    THEN LET n == Len(city0)
         IN  IF /\ n >= 2
                /\ Upper(SubSeq(city0, n - 1, n)) = Upper(state1)
                /\ Boundary(city0, n - 2)
             THEN Strip(SubSeq(city0, 1, n - 2))
             ELSE Strip(city0)
    ELSE city0

\* state_clean of one row, as written by lines 12-31
StateClean(state, city) ==
    TryExtractStateFromCity(StateFromField(state), LowerTrimmed(city))

\* city_clean of one row, as written by lines 18-37
CityClean(state, city) ==
    StripStateSuffix(StateClean(state, city), LowerTrimmed(city))

-----------------------------------------------------------------------------
(* clean_year.  Years are counted in quarters.                             *)

YEAR_MIN == 1980

\* str.extract(r'(\b\d{4}\b)'): the first run of exactly four digits standing
\* between two word boundaries; NullStr when there is none
FirstYearToken(text) ==
    LET hits == { i \in 1..(Len(text) - 3) :
                    /\ \A k \in 0..3 : text[i + k] \in Digits
                    /\ Boundary(text, i - 1)
                    /\ Boundary(text, i + 3) }
    IN  IF hits = { } THEN NullStr
        ELSE LET i == CHOOSE h \in hits : \A g \in hits : h <= g
             IN  SubSeq(text, i, i + 3)

\* lines 45-48: the numeric year field, else the token of the title
YearParsed(ano, title) ==
    IF IsNum(ano) THEN ano
    ELSE LET tok == FirstYearToken(AsStr(title))
             n   == ToNumeric(tok)     \* in hundredths; the year in quarters
         IN  IF tok = NullStr \/ ~IsNum(n) THEN NaN
             ELSE Num((4 * Val(n)) \div 100)

\* the range test with the upper limit at the current year
YearOutOfRangeNoMargin(y4, now) == y4 < 4 * YEAR_MIN \/ y4 > 4 * now

\* (df['ano_limpo'] < 1980) | (df['ano_limpo'] > (ano_atual + 1))
YearOutOfRange(y4, now) == y4 < 4 * YEAR_MIN \/ y4 > 4 * (now + 1)

\* lines 45-51 on one row
YearInRangeOrNaN(ano, title, now) ==
    LET y == YearParsed(ano, title)
    IN  IF IsNum(y) /\ YearOutOfRange(Val(y), now) THEN NaN ELSE y

RECURSIVE Insert(_, _)
Insert(x, sorted) ==
    IF sorted = << >> THEN << x >>
    ELSE IF x <= Head(sorted) THEN << x >> \o sorted
    ELSE << Head(sorted) >> \o Insert(x, Tail(sorted))

RECURSIVE SortAsc(_)
SortAsc(xs) == IF xs = << >> THEN << >> ELSE Insert(Head(xs), SortAsc(Tail(xs)))

\* Series.median(): NaN skipped; the middle value, or the mean of the two
\* middle values; NaN when nothing is left
Median(xs) ==
    LET notna == SelectSeq(xs, IsNum)
        v == SortAsc([ i \in 1..Len(notna) |-> Val(notna[i]) ])
        n == Len(v)
    IN  IF n = 0 THEN NaN
        ELSE IF n % 2 = 1 THEN Num(v[(n + 1) \div 2])
        ELSE Num((v[n \div 2] + v[n \div 2 + 1]) \div 2)

-----------------------------------------------------------------------------
(* clean_km, clean_text_columns                                            *)

KM_MAX == 1000000

\* clean_km on the numeric column quilometragem, lines 74-76
CleanKmValue(km) ==
    IF IsNum(km) /\ (Val(km) < 0 \/ Val(km) > KM_MAX) THEN NaN ELSE km

\* str.replace(r'\s+', ' ', regex=True)
RECURSIVE CollapseSpaces(_)
CollapseSpaces(s) ==
    IF Len(s) < 2 THEN s
    ELSE IF s[1] \in Whitespace /\ s[2] \in Whitespace
         THEN CollapseSpaces(Tail(s))
         ELSE << s[1] >> \o CollapseSpaces(Tail(s))

\* clean_text_columns on one value, lines 108-109
CleanTextValue(text) ==
    LET t == CollapseSpaces(Strip(AsStr(text)))
    IN  IF t \in { << "n", "a", "n" >>, << "N", "o", "n", "e" >>,
                    << "N", "U", "L", "L" >>, << >> }
        THEN NullStr ELSE t

-----------------------------------------------------------------------------
(* The table of clean_data: a sequence of rows and the set of its columns. *)
(* Each row keeps its index label (its position in the raw table).         *)

RawColumns ==
    { "url", "title_list", "ano", "price_list", "quilometragem", "marca",
      "state", "city", "zip_code", "neighborhood" }

\* the columns that hold numbers; the others hold text
NumberColumns == { "ano", "quilometragem", "ano_limpo", "price_clean",
                   "quilometragem_clean" }

\* text columns: url, title_list, price_list, marca, state, city, zip_code,
\* neighborhood and their cleaned forms

IsNull(col, v) == IF col \in NumberColumns THEN ~IsNum(v) ELSE v = NullStr

\* drop_duplicates(subset=['url'], keep='last')
DropDuplicatesKeepLast(rows) ==
    LET last(i) == \A j \in (i + 1)..Len(rows) : rows[j].url # rows[i].url
        idx == SelectSeq([ i \in 1..Len(rows) |-> i ], last)
    IN  [ k \in 1..Len(idx) |-> rows[idx[k]] ]

\* drop_duplicates(subset=['url'], keep='first')
DropDuplicates(rows) ==
    LET first(i) == \A j \in 1..(i - 1) : rows[j].url # rows[i].url
        idx == SelectSeq([ i \in 1..Len(rows) |-> i ], first)
    IN  [ k \in 1..Len(idx) |-> rows[idx[k]] ]

\* dropna(subset=cols)
DropNa(rows, cols) ==
    LET whole(r) == \A c \in cols : ~IsNull(c, r[c])
    IN  SelectSeq(rows, whole)

\* the columns line 195 drops
ConstantColumns(rows, cols) ==
    LET \* Series.nunique(): the number of distinct values, NaN not counted
        NUnique(col) ==
            Cardinality({ rows[i][col] :
                            i \in { j \in 1..Len(rows) : ~IsNull(col, rows[j][col]) } })
    IN  { c \in cols : NUnique(c) <= 1 }

\* remove_dirty_columns: dirty_to_clean
DirtyToClean ==
    [ state |-> "state_clean", city |-> "city_clean",
      neighborhood |-> "neighborhood_clean", zip_code |-> "zip_code_clean",
      ano |-> "ano_limpo", price_list |-> "price_clean",
      km_list |-> "km_clean", quilometragem |-> "quilometragem_clean",
      motor_list |-> "motor_clean", potencia_do_motor |-> "potencia_clean",
      portas |-> "portas_clean" ]

\* remove_dirty_columns: columns_to_remove
DirtyColumns(cols) ==
    { c \in DOMAIN DirtyToClean : c \in cols /\ DirtyToClean[c] \in cols }

\* df[col] = values : column col of row i set to values[i]
Assign(rows, col, values) ==
    [ i \in 1..Len(rows) |->
        [ c \in (DOMAIN rows[i]) \cup { col } |->
            IF c = col THEN values[i] ELSE rows[i][c] ] ]

\* df.drop(columns=cols)
DropColumns(rows, cols) ==
    [ i \in 1..Len(rows) |-> [ c \in (DOMAIN rows[i]) \ cols |-> rows[i][c] ] ]

\* the table as read: every row labelled with its position
Labelled(batch) ==
    LET position(i) == [ c \in (DOMAIN batch[i]) \cup { "index" } |->
                           IF c = "index" THEN i ELSE batch[i][c] ]
    IN  [ i \in 1..Len(batch) |-> position(i) ]

\* clean_year, lines 45-51
YearColumn(rows, now) ==
    Assign(rows, "ano_limpo",
           [ i \in 1..Len(rows) |->
               YearInRangeOrNaN(rows[i].ano, rows[i].title_list, now) ])

\* clean_year, line 53
YearImputed(rows) ==
    LET m == Median([ i \in 1..Len(rows) |-> rows[i].ano_limpo ])
    IN  Assign(rows, "ano_limpo",
               [ i \in 1..Len(rows) |->
                   IF IsNum(rows[i].ano_limpo) THEN rows[i].ano_limpo ELSE m ])

\* clean_price
PriceColumn(rows) ==
    Assign(rows, "price_clean",
           [ i \in 1..Len(rows) |-> CleanPriceValue(rows[i].price_list) ])

\* clean_km: the table has no km_list column
KmColumn(rows, cols) ==
    IF "quilometragem" \in cols
    THEN Assign(rows, "quilometragem_clean",
                [ i \in 1..Len(rows) |-> CleanKmValue(rows[i].quilometragem) ])
    ELSE rows

TextColumns(rows, cols) ==
    LET \* text_columns (accents left out of the names)
        TEXT_COLUMNS == { "marca", "modelo", "categoria", "cor", "combustivel",
                          "cambio", "direcao", "tipo_de_veiculo" }
    IN
    [ i \in 1..Len(rows) |->
        [ c \in DOMAIN rows[i] |->
            IF c \in TEXT_COLUMNS \cap cols
            THEN CleanTextValue(rows[i][c])
            ELSE rows[i][c] ] ]

\* the object columns all of whose values are spelled as booleans
BooleanColumns(rows, cols) ==
    LET \* the spellings of line 116
        BoolSpellings ==
            { << "T", "r", "u", "e" >>, << "F", "a", "l", "s", "e" >>,
              << "t", "r", "u", "e" >>, << "f", "a", "l", "s", "e" >>,
              << "1" >>, << "0" >>, << >> }
    IN  { c \in cols \ NumberColumns :
            \A i \in 1..Len(rows) : Strip(AsStr(rows[i][c])) \in BoolSpellings }

\* lines 118-125: every value of a boolean column mapped to True or False
BooleanCleaned(rows, cols) ==
    [ i \in 1..Len(rows) |->
        [ c \in DOMAIN rows[i] |->
            IF c \in BooleanColumns(rows, cols)
            THEN IF Strip(AsStr(rows[i][c])) \in
                        { << "T", "r", "u", "e" >>, << "t", "r", "u", "e" >>, << "1" >> }
                 THEN << "T", "r", "u", "e" >>
                 ELSE << "F", "a", "l", "s", "e" >>
            ELSE rows[i][c] ] ]

\* limpar_colunas_localizacao, lines 12-37: the four columns it writes
LocationColumns(rows) ==
    LET n == Len(rows)
        \* line 15-16: str.replace(r'\.0$', ''), 'nan' read as NaN
        ZipClean(zip) ==
            LET t == AsStr(zip)
                k == Len(t)
                u == IF k >= 2 /\ SubSeq(t, k - 1, k) = << ".", "0" >>
                     THEN SubSeq(t, 1, k - 2) ELSE t
            IN  IF u = << "n", "a", "n" >> THEN NullStr ELSE u
        r1 == Assign(rows, "state_clean",
                     [ i \in 1..n |-> StateClean(rows[i].state, rows[i].city) ])
        r2 == Assign(r1, "zip_code_clean",
                     [ i \in 1..n |-> ZipClean(rows[i].zip_code) ])
        r3 == Assign(r2, "city_clean",
                     [ i \in 1..n |-> CityClean(rows[i].state, rows[i].city) ])
    IN  Assign(r3, "neighborhood_clean",
               [ i \in 1..n |-> LowerTrimmed(rows[i].neighborhood) ])

-----------------------------------------------------------------------------
(* Derived features: car_age and km_per_year                               *)

CURRENT_YEAR == 2025

\* a quotient num/den; den = 0 stands for a non-finite float (inf, -inf, nan)
Quot(num, den) == [ num |-> num, den |-> den ]

IsFinite(q) == q.den # 0

\* car_age from a year, both in quarters;
\* df.loc[df['car_age'] <= 0, 'car_age'] = 0.5  /  if car_age <= 0: car_age = 0.5
CarAge(ano4) ==
    LET age4 == 4 * CURRENT_YEAR - ano4
    IN  IF age4 <= 0 THEN 2 ELSE age4

CarAgeServeWholeYear(ano4) ==
    LET age4 == 4 * CURRENT_YEAR - ano4
    IN  IF age4 <= 0 THEN 4 ELSE age4

\* calculate_derived_features, with the CURRENT_YEAR of feature_processor.py:
\*   car_age = CURRENT_YEAR - car.ano; if car_age <= 0: car_age = 0.5
CarAgeServe(ano4) ==
    LET age4 == 4 * CURRENT_YEAR - ano4
    IN  IF age4 <= 0 THEN 2 ELSE age4

\* fillna(0)  /  car.quilometragem if car.quilometragem is not None else 0
KmFill(km) == IF IsNum(km) THEN Val(km) ELSE 0

\* build_features, load_and_prep_data, ModelLoader.load:
\*   km_per_year = km / car_age; replace([inf, -inf], nan).fillna(0)
KmPerYearTrain(km, age4) ==
    LET q == Quot(4 * km, age4)
    IN  IF IsFinite(q) THEN q ELSE Quot(0, 1)

\* calculate_derived_features:
\*   km_per_year = km / car_age if car_age > 0 else 0; not isfinite -> 0
KmPerYearServe(km, age4) ==
    LET q == IF age4 > 0 THEN Quot(4 * km, age4) ELSE Quot(0, 1)
    IN  IF IsFinite(q) THEN q ELSE Quot(0, 1)

\* how far, in quarters, the years tried lie on either side of CURRENT_YEAR
AgeSpan == 8

\* The request schema takes any float as ano and any float or None as
\* quilometragem (api/models.py declares no range): the years around the
\* current year, every quarter, and two older ones
ServeYears ==
    ((4 * CURRENT_YEAR - AgeSpan) .. (4 * CURRENT_YEAR + AgeSpan))
        \cup { 4 * 1980, 4 * 2018 }

\* A cleaned year is an in-range year of the raw table (whole years on the
\* listing pages) or the median of such years (a whole year or a half).
TrainYears ==
    { y \in ServeYears :
        /\ y % 2 = 0
        /\ y >= 4 * 1980
        /\ y <= 4 * (CURRENT_YEAR + 1) }

\* A cleaned mileage is NaN or lies in [0, 1000000].
TrainKms == { NaN, Num(0), Num(1), Num(40000), Num(1000000) }

-----------------------------------------------------------------------------
(* Rare-state and top-brand bucketing.  A table is held as its value       *)
(* counts: the bucketing steps read nothing else of it.                    *)

STATE_OTHER == "STATE_OTHER"

\* the brands are numbered; 0 is the sentinel 'BRAND_OTHER'
BRAND_OTHER == 0

THRESHOLD == 50

TOP_N == 20

RECURSIVE SumOver(_, _)
SumOver(f, S) ==
    IF S = {} THEN 0
    ELSE LET x == CHOOSE y \in S : TRUE
         IN  f[x] + SumOver(f, S \ { x })

\* the rare test with the cutoff included
IsRareInclusive(n) == n <= THRESHOLD

\* state_counts < threshold
IsRare(n) == n < THRESHOLD

\* value_counts(): the values present in the column
Present(counts) == { v \in DOMAIN counts : counts[v] > 0 }

\* rare_states = state_counts[state_counts < threshold].index
RareStates(counts) == { v \in Present(counts) : IsRare(counts[v]) }

\* df['state_clean'].replace(rare_states, 'STATE_OTHER') on one value
StateBucket(v, rare) == IF v \in rare THEN STATE_OTHER ELSE v

\* brand_counts.head(20).index: the first 20 values of the counts sorted in
\* descending order.  The order among equal counts is the sort's own, so
\* every choice among the values tied at the cut is a possible outcome.
TopSets(counts) ==
    LET P == Present(counts)
    IN  IF Cardinality(P) <= TOP_N THEN { P }
        ELSE LET above(c) == { v \in P : counts[v] > c }
                 atleast(c) == { v \in P : counts[v] >= c }
                 cut == CHOOSE c \in { counts[v] : v \in P } :
                            /\ Cardinality(above(c)) < TOP_N
                            /\ Cardinality(atleast(c)) >= TOP_N
                 tied == atleast(cut) \ above(cut)
             IN  { above(cut) \cup K :
                     K \in { K0 \in SUBSET tied :
                               Cardinality(K0) = TOP_N - Cardinality(above(cut)) } }

\* lambda x: x if x in top_20_brands else 'BRAND_OTHER'
BrandBucket(v, top) == IF v \in top THEN v ELSE BRAND_OTHER

\* the counts of a column after each value v has been replaced by map[v]
\* and `extra` more rows have been given the value `into`
Recount(counts, map, into, extra) ==
    [ w \in DOMAIN counts |->
        SumOver(counts, { v \in DOMAIN counts : map[v] = w })
          + (IF w = into THEN extra ELSE 0) ]

\* brands 1..NBulk each hold BulkCount rows; the NTail brands after them hold
\* 0..MaxTailCount rows each, fewer than any bulk brand
NBulk == TOP_N - 2

NTail == 3

MaxTailCount == 2

BulkCount == MaxTailCount + 2

BrandIds == 0..(NBulk + NTail)

BrandTables ==
    { [ b \in BrandIds |->
          IF b = BRAND_OTHER THEN 0
          ELSE IF b <= NBulk THEN BulkCount
          ELSE tail[b - NBulk] ] :
      tail \in [ 1..NTail -> 0..MaxTailCount ] }

StateNames == { "SP", "RJ" }

StateTables ==
    { [ v \in StateNames \cup { STATE_OTHER } |->
          IF v = STATE_OTHER THEN 0 ELSE c[v] ] :
      c \in [ StateNames -> { 1, THRESHOLD - 1, THRESHOLD, THRESHOLD + 1 } ] }

MaxPasses == 2

-----------------------------------------------------------------------------
(* The orchestration script, pipeline.py                                   *)

Commands ==
    { "scraping", "etl", "features", "train", "pipeline", "api", "dashboard" }

\* run_pipeline: steps
Steps == << "scraping", "etl", "features", "train" >>

\* script_path of each run_* function
Script(stage) ==
    CASE stage = "scraping"  -> "scrapping/run.py"
      [] stage = "etl"       -> "etl/run.py"
      [] stage = "features"  -> "feature/run.py"
      [] stage = "train"     -> "models/run.py"
      [] stage = "api"       -> "api/run.py"
      [] stage = "dashboard" -> "dashboard/run.py"

ScriptFiles == { Script(st) : st \in Commands \ { "pipeline" } }

\* the artifact check left out
PrereqIgnored(stage, fs) == TRUE

\* the artifact check each run_* function makes before it starts its script
PrereqOk(stage, fs) ==
    CASE stage = "scraping"  -> TRUE
      [] stage = "etl"       -> "raw" \in fs
      [] stage = "features"  -> "cleaned" \in fs
      [] stage = "train"     -> "cleaned" \in fs
      [] stage = "api"       -> "model_v1" \in fs \/ "model_v4" \in fs
      [] stage = "dashboard" -> "model_v1" \in fs \/ "model_v4" \in fs

\* the stage the message printed on a missing artifact names
Advice(stage) ==
    CASE stage = "etl"       -> "scraping"
      [] stage = "features"  -> "etl"
      [] stage = "train"     -> "etl"
      [] stage = "api"       -> "train"
      [] stage = "dashboard" -> "train"
      [] OTHER               -> "none"

\* the file a stage's script writes when it ends with exit code 0
Output(stage) ==
    CASE stage = "scraping"  -> { "raw" }
      [] stage = "etl"       -> { "cleaned" }
      [] stage = "features"  -> { "features" }
      [] stage = "train"     -> { "model_v4" }
      [] OTHER               -> { }

\* the value run_<stage> returns; subprocess.run is given check=True in the
\* four batch stages only
Returns(stage, fs, oc) ==
    /\ PrereqOk(stage, fs)
    /\ Script(stage) \in fs
    /\ oc # "raise"
    /\ (stage \in { "scraping", "etl", "features", "train" } => oc = "ok")

\* the loop of run_pipeline with its early return left out
KeepsGoingAlways(ok, step) == step < Len(Steps)

\* run_pipeline: whether the loop goes on to a next step after step `step`
\* returned `ok`
KeepsGoing(ok, step) == ok /\ step < Len(Steps)

\* run_<stage>(), called from main or from the loop of run_pipeline
RunStage(stage) ==
    /\ pl_pc = "run"
    /\ \/ pl_cmd = stage
       \/ pl_cmd = "pipeline" /\ Steps[pl_step] = stage
    \* what subprocess.run does: the script exits 0 ("ok"), exits non-zero
    \* ("fail"), or the call raises before any script runs ("raise")
    /\ \E oc \in { "ok", "fail", "raise" } :
         LET ok == Returns(stage, pl_fs, oc)
             on == PrereqOk(stage, pl_fs) /\ Script(stage) \in pl_fs /\ oc # "raise"
         IN  /\ pl_called' = Append(pl_called, stage)
             /\ pl_returned' = Append(pl_returned, ok)
             /\ pl_outcomes' = Append(pl_outcomes, oc)
             /\ pl_told' = IF PrereqOk(stage, pl_fs) THEN pl_told
                           ELSE pl_told \cup { Advice(stage) }
             /\ pl_launched' = IF on THEN Append(pl_launched, stage) ELSE pl_launched
             /\ pl_fs' = IF on /\ oc = "ok" THEN pl_fs \cup Output(stage) ELSE pl_fs
             /\ IF pl_cmd = "pipeline" /\ KeepsGoing(ok, pl_step)
                THEN /\ pl_step' = pl_step + 1
                     /\ UNCHANGED << pl_pc, pl_success >>
                ELSE /\ pl_pc' = "finish"
                     /\ pl_success' = ok
                     /\ UNCHANGED pl_step
    /\ UNCHANGED << pl_cmd, pl_skip, pl_deps, pl_exit >>

-----------------------------------------------------------------------------
(* Inputs of limpar_colunas_localizacao and of clean_data.  Each text      *)
(* carries the value a reader takes from it: code is the state code the    *)
(* text names (for a city: the code it ends with as a token of its own).   *)

StateSamples ==
    { [ txt |-> << "S", "P" >>, code |-> << "S", "P" >> ],
      [ txt |-> << "s", "p" >>, code |-> << "S", "P" >> ],
      [ txt |-> << " ", "r", "j", " " >>, code |-> << "R", "J" >> ],
      [ txt |-> << "M", "g" >>, code |-> << "M", "G" >> ],
      [ txt |-> << "X", "X" >>, code |-> NullStr ],
      [ txt |-> << "S", "a", "o", " ", "P", "a", "u", "l", "o" >>, code |-> NullStr ],
      [ txt |-> NullStr, code |-> NullStr ],
      [ txt |-> << "S", " ", "P" >>, code |-> NullStr ],
      [ txt |-> << "S", "P", "X" >>, code |-> NullStr ] }

CitySamples ==
    { [ txt |-> << "c", "a", "m", "p", "i", "n", "a", "s", " ", "s", "p" >>, code |-> << "S", "P" >> ],
      [ txt |-> << "C", "a", "m", "p", "i", "n", "a", "s", " ", "-", " ", "M", "G" >>, code |-> << "M", "G" >> ],
      [ txt |-> << "r", "i", "o", "/", "r", "j" >>, code |-> << "R", "J" >> ],
      [ txt |-> << "s", "p" >>, code |-> << "S", "P" >> ],
      [ txt |-> << "c", "a", "s", "p" >>, code |-> NullStr ],
      [ txt |-> << "i", "t", "u" >>, code |-> NullStr ],
      [ txt |-> NullStr, code |-> NullStr ],
      [ txt |-> << "n", "a", "n" >>, code |-> NullStr ],
      [ txt |-> << "b", "e", "l", "e", "m", " ", "p", "a", " " >>, code |-> << "P", "A" >> ],
      [ txt |-> << "f", "o", "z", " ", "p", "r", "." >>, code |-> NullStr ],
      [ txt |-> << "n", "a", "t", "a", "l", " ", "R", "N" >>, code |-> << "R", "N" >> ],
      [ txt |-> << "s", "a", "o", " ", "j", "o", "s", "e", "-", "s", "c" >>, code |-> << "S", "C" >> ] }

RowPool ==
    { [ url |-> << "u", "1" >>, title_list |-> << "g", "o", "l", " ", "2", "0", "1", "5" >>, ano |-> Num(4 * 2018),
        price_list |-> << "R", "$", " ", "5", "0", ".", "0", "0", "0" >>, quilometragem |-> Num(40000),
        marca |-> << "T", "o", "y", "o", "t", "a" >>, state |-> << "s", "p" >>, city |-> << "c", "a", "m", "p", "i", "n", "a", "s" >>,
        zip_code |-> << "1", "3", "0", "0", "0", ".", "0" >>, neighborhood |-> NullStr,
        g_title_year |-> Num(4 * 2015), g_price |-> Num(5000000), g_state |-> << "S", "P" >> ],
      [ url |-> << "u", "1" >>, title_list |-> << "g", "o", "l", " ", "1", ".", "0", " ", "2", "0", "1", "5", " ", "f", "l", "e", "x" >>, ano |-> NaN,
        price_list |-> << "R", "$", " ", "5", "0", ".", "0", "0", "0", ",", "0", "0" >>, quilometragem |-> NaN,
        marca |-> << " ", "V", "W", " ", " ", "G", "o", "l", " " >>, state |-> NullStr, city |-> << "c", "a", "m", "p", "i", "n", "a", "s", " ", "s", "p" >>,
        zip_code |-> NullStr, neighborhood |-> << "C", "e", "n", "t", "r", "o" >>,
        g_title_year |-> Num(4 * 2015), g_price |-> Num(5000000), g_state |-> << "S", "P" >> ],
      [ url |-> << "u", "2" >>, title_list |-> << "u", "n", "o" >>, ano |-> NaN,
        price_list |-> << "5", "0", "0" >>, quilometragem |-> Num(0),
        marca |-> << "F", "i", "a", "t" >>, state |-> << "R", "J" >>, city |-> NullStr,
        zip_code |-> << "1", "3", "0", "0", "2", ".", "0" >>, neighborhood |-> << "C", "e", "n", "t", "r", "o" >>,
        g_title_year |-> NaN, g_price |-> Num(50000), g_state |-> << "R", "J" >> ],
      [ url |-> << "u", "3" >>, title_list |-> << "f", "u", "s", "c", "a", " ", "1", "9", "7", "9" >>, ano |-> Num(4 * 1979),
        price_list |-> << "R", "$", " ", "1", "2", ".", "0", "0", "0" >>, quilometragem |-> Num(1000001),
        marca |-> << "n", "a", "n" >>, state |-> << "X", "X" >>, city |-> << "r", "i", "o" >>,
        zip_code |-> NullStr, neighborhood |-> NullStr,
        g_title_year |-> Num(4 * 1979), g_price |-> Num(1200000), g_state |-> NullStr ],
      [ url |-> << "u", "2" >>, title_list |-> << "a", "2", "0", "1", "5", "b" >>, ano |-> Num(4 * 2011),
        price_list |-> << "R", "$", " ", "1", "2", ".", "0", "0", "0" >>, quilometragem |-> Num(-5),
        marca |-> << "F", "i", "a", "t" >>, state |-> << " ", "M", "G", " " >>, city |-> << "b", "h", " ", "m", "g" >>,
        zip_code |-> << "1", "3", "0", "0", "4", ".", "0" >>, neighborhood |-> << "C", "e", "n", "t", "r", "o" >>,
        g_title_year |-> NaN, g_price |-> Num(1200000), g_state |-> << "M", "G" >> ],
      [ url |-> << "u", "3" >>, title_list |-> << "o", "n", "i", "x", " ", "2", "0", "2", "0" >>, ano |-> Num(4 * 2027),
        price_list |-> << "R", "$", " ", "1", ".", "0", "0", "0" >>, quilometragem |-> Num(1000000),
        marca |-> << "G", "M" >>, state |-> NullStr, city |-> << "c", "a", "s", "p" >>,
        zip_code |-> NullStr, neighborhood |-> << "C", "e", "n", "t", "r", "o" >>,
        g_title_year |-> Num(4 * 2020), g_price |-> Num(100000), g_state |-> NullStr ],
      [ url |-> << "u", "4" >>, title_list |-> << "1", "2", "3", "4", "5", " ", "2", "0", "1", "2" >>, ano |-> Num(4 * 2010),
        price_list |-> << "R", "$", " ", "9", "0", ".", "0", "0", "0" >>, quilometragem |-> Num(90000),
        marca |-> << "T", "o", "y", "o", "t", "a" >>, state |-> << "S", "P" >>, city |-> << "s", "a", "n", "t", "o", "s", "/", "S", "P" >>,
        zip_code |-> << "1", "3", "0", "0", "6", ".", "0" >>, neighborhood |-> NullStr,
        g_title_year |-> Num(4 * 2012), g_price |-> Num(9000000), g_state |-> << "S", "P" >> ],
      [ url |-> << "u", "5" >>, title_list |-> << "p", "a", "l", "i", "o" >>, ano |-> NaN,
        price_list |-> << "c", "o", "n", "s", "u", "l", "t", "e" >>, quilometragem |-> Num(10),
        marca |-> << "F", "i", "a", "t" >>, state |-> << "S", "P" >>, city |-> << "s", "a", "o", " ", "p", "a", "u", "l", "o" >>,
        zip_code |-> NullStr, neighborhood |-> << "C", "e", "n", "t", "r", "o" >>,
        g_title_year |-> NaN, g_price |-> NaN, g_state |-> << "S", "P" >> ] }

MaxRows == 3

\* the parts of the repository the specifications below exercise one at a time
Groups == { "price", "der", "bk", "pl", "loc", "cl", "bo", "tr", "sv", "st", "rg", "cq" }

\* the variables of every part named in G, at rest: the part is not in use
Idle(G) ==
    /\ IF "price" \in G
       THEN
             /\ price_fmt = [ prefix |-> << >>, lead |-> [ txt |-> << "1" >>, n |-> 1 ],
                              groups |-> << >>, dots |-> FALSE,
                              cents |-> [ txt |-> << >>, n |-> 0 ] ]
             /\ price_in = << >>
             /\ price_out = NaN
             /\ price_pc = "idle"
       ELSE TRUE
    /\ IF "der" \in G
       THEN
             /\ der_path = "none"
             /\ der_ano = 0
             /\ der_km = NaN
             /\ der_age = NaN
             /\ der_kmfill = 0
             /\ der_kmy = Quot(0, 1)
             /\ der_pc = "idle"
       ELSE TRUE
    /\ IF "bk" \in G
       THEN
             /\ bk_states = [ v \in StateNames \cup { STATE_OTHER } |-> 0 ]
             /\ bk_brands = [ b \in BrandIds |-> 0 ]
             /\ bk_missing = 0
             /\ bk_in = [ states |-> bk_states, brands |-> bk_brands, missing |-> 0 ]
             /\ bk_state_of = [ v \in StateNames |-> v ]
             /\ bk_brand_of = [ b \in BrandIds |-> b ]
             /\ bk_passes = 0
       ELSE TRUE
    /\ IF "pl" \in G
       THEN
             /\ pl_fs = { }
             /\ pl_cmd = "none"
             /\ pl_skip = FALSE
             /\ pl_deps = FALSE
             /\ pl_pc = "idle"
             /\ pl_step = 0
             /\ pl_called = << >>
             /\ pl_returned = << >>
             /\ pl_outcomes = << >>
             /\ pl_told = { }
             /\ pl_launched = << >>
             /\ pl_success = FALSE
             /\ pl_exit = -1
       ELSE TRUE
    /\ IF "loc" \in G
       THEN
             /\ loc_in = [ state |-> NullStr, city |-> NullStr ]
             /\ loc_kept = FALSE
             /\ loc_state = NullStr
             /\ loc_city = NullStr
             /\ loc_pc = "idle"
       ELSE TRUE
    /\ IF "cl" \in G
       THEN
             /\ cl_now = CURRENT_YEAR
             /\ cl_raw = << >>
             /\ cl_df = << >>
             /\ cl_cols = { }
             /\ cl_pc = "idle"
       ELSE TRUE
    /\ IF "bo" \in G
       THEN
             /\ bo_in = << >>
             /\ bo_out = << >>
             /\ bo_coerced = FALSE
             /\ bo_pc = "idle"
       ELSE TRUE
    /\ IF "tr" \in G
       THEN
             /\ tr_fs = { }
             /\ tr_cols = { }
             /\ tr_read = "none"
             /\ tr_X = { }
             /\ tr_written = { }
             /\ tr_pc = "idle"
             /\ tr_exit = -1
       ELSE TRUE
    /\ IF "sv" \in G
       THEN
             /\ sv_trained = { }
             /\ sv_corpus = { }
             /\ sv_pc = "idle"
             /\ sv_model = FALSE
             /\ sv_top = { }
             /\ sv_rare = { }
             /\ sv_expected = { }
             /\ sv_req = { }
             /\ sv_feat = << >>
             /\ sv_raised = FALSE
             /\ sv_resp = "none"
             /\ sv_prev = "none"
       ELSE TRUE
    /\ IF "st" \in G
       THEN
             /\ st_stage = "none"
             /\ st_in = [ exists |-> FALSE, rows |-> 0, cols |-> { } ]
             /\ st_survive = 0
             /\ st_allconst = FALSE
             /\ st_out = "absent"
             /\ st_exit = -1
             /\ st_pc = "idle"
       ELSE TRUE
    /\ IF "rg" \in G
       THEN
             /\ rg_col = "none"
             /\ rg_raw = [ txt |-> << >>, num |-> NaN, value |-> NaN ]
             /\ rg_out = NaN
             /\ rg_rows = 0
             /\ rg_pc = "idle"
       ELSE TRUE
    /\ IF "cq" \in G
       THEN
             /\ cq_loaded = [ top |-> { }, rare |-> { }, expected |-> { } ]
             /\ cq_req = << >>
             /\ cq_row = << >>
             /\ cq_resp = << >>
             /\ cq_pc = << >>
       ELSE TRUE

-----------------------------------------------------------------------------
(* Specification of clean_price alone                                      *)

InitPrice ==
    /\ Idle(Groups \ { "price" })
    /\ price_fmt \in PriceFormats
    /\ price_in = RenderPrice(price_fmt)
    /\ price_out = NaN
    /\ price_pc = "start"

\* df = clean_price(df) on a one-row table
CleanPrice ==
    /\ price_pc = "start"
    /\ price_out' = CleanPriceValue(price_in)
    /\ price_pc' = "done"
    /\ UNCHANGED << price_fmt, price_in, lateVars, derVars, bkVars, plVars, locVars, clVars >>

SpecPrice == InitPrice /\ [][CleanPrice]_vars

\* C2: for every raw price written in the currency format, clean_price
\* yields the number the text stands for (thousands separators removed, the
\* comma read as the decimal point); it yields null when that number is
\* below 1000 or above 1000000, and keeps 1000 and 1000000 themselves.
C2_CleanPriceCurrency ==
    price_pc = "done" =>
        LET n == PriceNumber(price_fmt)
        IN  price_out = IF n < 100 * 1000 \/ n > 100 * 1000000 THEN NaN ELSE Num(n)

\* "R$ 1.000.000" is cleaned to 1000000, the upper bound, and kept
C2_Witness ==
    /\ price_pc = "done"
    /\ price_in = << "R", "$", " ", "1", ".", "0", "0", "0", ".", "0", "0", "0" >>
    /\ price_out = Num(100 * 1000000)

-----------------------------------------------------------------------------
(* Specification of the derived features, on one cleaned row or request    *)

InitDerived ==
    /\ Idle(Groups \ { "der" })
    /\ der_path \in { "train", "serve" }
    /\ der_ano \in IF der_path = "train" THEN TrainYears ELSE ServeYears
    /\ der_km \in IF der_path = "train" THEN TrainKms ELSE (TrainKms \cup { Num(-1000) })
    /\ der_age = NaN
    /\ der_kmfill = 0
    /\ der_kmy = Quot(0, 1)
    /\ der_pc = "start"

\* build_features / load_and_prep_data / ModelLoader.load on a cleaned row
DeriveTrain ==
    /\ der_pc = "start"
    /\ der_path = "train"
    /\ der_age' = Num(CarAge(der_ano))
    /\ der_kmfill' = KmFill(der_km)
    /\ der_kmy' = KmPerYearTrain(KmFill(der_km), CarAge(der_ano))
    /\ der_pc' = "done"
    /\ UNCHANGED << der_path, der_ano, der_km, lateVars, priceVars, bkVars, plVars, locVars, clVars >>

\* FeatureProcessor.calculate_derived_features on a request
DeriveServe ==
    /\ der_pc = "start"
    /\ der_path = "serve"
    /\ der_age' = Num(CarAgeServe(der_ano))
    /\ der_kmfill' = KmFill(der_km)
    /\ der_kmy' = KmPerYearServe(KmFill(der_km), CarAgeServe(der_ano))
    /\ der_pc' = "done"
    /\ UNCHANGED << der_path, der_ano, der_km, lateVars, priceVars, bkVars, plVars, locVars, clVars >>

SpecDerived == InitDerived /\ [][DeriveTrain \/ DeriveServe]_vars

\* C4: car_age is at least 0.5 wherever it is computed, for every year the
\* computation can receive, fractional years included.
C4_CarAgeAtLeastHalf ==
    der_pc = "done" => Val(der_age) >= 2

\* C5: km_per_year is finite and non-negative, on every cleaned row and for
\* every request the schema accepts.
C5_KmPerYearFiniteNonNeg ==
    der_pc = "done" => IsFinite(der_kmy) /\ der_kmy.den > 0 /\ der_kmy.num >= 0

-----------------------------------------------------------------------------
(* Specification of the bucketing steps of build_features                  *)

InitBucket ==
    /\ Idle(Groups \ { "bk" })
    /\ bk_states \in StateTables
    /\ bk_brands \in BrandTables
    /\ bk_missing \in { 0, 1 }
    /\ bk_in = [ states |-> bk_states, brands |-> bk_brands, missing |-> bk_missing ]
    /\ bk_state_of = [ v \in StateNames |-> v ]
    /\ bk_brand_of = [ b \in BrandIds |-> b ]
    /\ bk_passes = 0

\* build_features lines 25-32 (load_and_prep_data 37-43): the state step,
\* then the brand step, on the table as it stands
BucketTable ==
    /\ bk_passes < MaxPasses
    /\ LET rare == RareStates(bk_states)
           smap == [ v \in DOMAIN bk_states |-> StateBucket(v, rare) ]
       IN  /\ bk_states' = Recount(bk_states, smap, STATE_OTHER, 0)
           /\ bk_state_of' = [ v \in StateNames |-> smap[bk_state_of[v]] ]
    /\ \E top \in TopSets(bk_brands) :
         LET bmap == [ b \in BrandIds |-> BrandBucket(b, top) ]
         IN  /\ bk_brands' = Recount(bk_brands, bmap, BRAND_OTHER, bk_missing)
             /\ bk_brand_of' = [ b \in BrandIds |-> bmap[bk_brand_of[b]] ]
    /\ bk_missing' = 0
    /\ bk_passes' = bk_passes + 1
    /\ UNCHANGED << bk_in, lateVars, priceVars, derVars, plVars, locVars, clVars >>

SpecBucket == InitBucket /\ [][BucketTable]_vars

\* the table is bucketed, and BRAND_OTHER holds more rows than one of the
\* brands the first pass kept
OtherOutranksKept ==
    /\ bk_passes = 1
    /\ \E b \in BrandIds \ { BRAND_OTHER } :
          bk_brands[b] > 0 /\ bk_brands[BRAND_OTHER] > bk_brands[b]

\* C6: bucketing an already bucketed table changes no row's brand, also
\* when BRAND_OTHER is more frequent than some of the kept brands.
C6_BrandBucketIdempotent ==
    [][ OtherOutranksKept =>
          \A b \in BrandIds :
              bk_in.brands[b] > 0 => bk_brand_of'[b] = bk_brand_of[b] ]_vars

\* a state kept at exactly 50 rows beside a state dropped at 49
C7_Witness ==
    /\ bk_passes = 1
    /\ bk_in.states["SP"] = 50 /\ bk_state_of["SP"] = "SP"
    /\ bk_in.states["RJ"] = 49 /\ bk_state_of["RJ"] = STATE_OTHER

\* C7: a state in at least 50 rows keeps its code, a state in fewer than 50
\* rows becomes STATE_OTHER, and a state in exactly 50 rows keeps its code.
C7_StateBucketCutoff ==
    bk_passes = 1 =>
        \A v \in StateNames :
            bk_state_of[v] = IF bk_in.states[v] >= 50 THEN v ELSE STATE_OTHER

-----------------------------------------------------------------------------
(* Specification of the orchestration script                               *)

InitPipe ==
    /\ Idle(Groups \ { "pl" })
    /\ \E data \in SUBSET { "raw", "cleaned", "features", "model_v1", "model_v4" },      \* the scripts: all, or all but one
          scripts \in { ScriptFiles } \cup { ScriptFiles \ { f } : f \in ScriptFiles } :
         pl_fs = data \cup scripts
    /\ pl_cmd \in Commands
    /\ pl_skip \in BOOLEAN
    /\ pl_deps \in BOOLEAN
    /\ pl_pc = "main"
    /\ pl_step = 0
    /\ pl_called = << >>
    /\ pl_returned = << >>
    /\ pl_outcomes = << >>
    /\ pl_told = { }
    /\ pl_launched = << >>
    /\ pl_success = FALSE
    /\ pl_exit = -1

\* main, lines 229-232: the dependency check
CheckDependencies ==
    /\ pl_pc = "main"
    /\ IF ~pl_skip /\ ~pl_deps
       THEN pl_pc' = "exit" /\ pl_exit' = 1 /\ UNCHANGED pl_step
       ELSE pl_pc' = "run" /\ pl_step' = 1 /\ UNCHANGED pl_exit
    /\ UNCHANGED << pl_fs, pl_cmd, pl_skip, pl_deps, pl_called, pl_returned,
                    pl_outcomes, pl_told, pl_launched, pl_success, lateVars, priceVars,
                    derVars, bkVars, locVars, clVars >>

run_scraping == RunStage("scraping") /\ UNCHANGED << lateVars, priceVars, derVars, bkVars,
                    locVars, clVars >>

run_etl == RunStage("etl") /\ UNCHANGED << lateVars, priceVars, derVars, bkVars,
                    locVars, clVars >>

run_features == RunStage("features") /\ UNCHANGED << lateVars, priceVars, derVars, bkVars,
                    locVars, clVars >>

run_train == RunStage("train") /\ UNCHANGED << lateVars, priceVars, derVars, bkVars,
                    locVars, clVars >>

run_api == RunStage("api") /\ UNCHANGED << lateVars, priceVars, derVars, bkVars,
                    locVars, clVars >>

run_dashboard == RunStage("dashboard") /\ UNCHANGED << lateVars, priceVars, derVars, bkVars,
                    locVars, clVars >>

\* main, lines 244-247: the exit code
Finish ==
    /\ pl_pc = "finish"
    /\ pl_exit' = IF pl_success THEN 0 ELSE 1
    /\ pl_pc' = "exit"
    /\ UNCHANGED << pl_fs, pl_cmd, pl_skip, pl_deps, pl_step, pl_called,
                    pl_returned, pl_outcomes, pl_told, pl_launched, pl_success,
                    lateVars, priceVars, derVars, bkVars, locVars, clVars >>

SpecPipe ==
    InitPipe /\ [][\/ CheckDependencies
                 \/ run_scraping
                 \/ run_etl
                 \/ run_features
                 \/ run_train
                 \/ run_api
                 \/ run_dashboard
                 \/ Finish]_vars

\* C10: the pipeline subcommand calls the stages in the order scraping, ETL,
\* features, train; a stage is called only after every earlier stage returned
\* success; after a failed stage no later stage is called and the command
\* exits with failure; it exits with success only if all four succeeded.
C10_PipelineHaltsOnFirstFailure ==
    pl_cmd = "pipeline" =>
        /\ Len(pl_called) <= 4
        /\ pl_called = SubSeq(<< "scraping", "etl", "features", "train" >>,
                              1, Len(pl_called))
        /\ \A i \in 1..Len(pl_called) : \A j \in 1..(i - 1) : pl_returned[j]
        /\ (pl_pc = "exit" /\ \E j \in 1..Len(pl_returned) : ~pl_returned[j])
               => pl_exit = 1
        /\ pl_exit = 0 =>
               (Len(pl_returned) = 4 /\ \A j \in 1..4 : pl_returned[j])

\* the pipeline stopped at a failed ETL after a successful scraping
C10_Witness ==
    /\ pl_cmd = "pipeline"
    /\ pl_pc = "exit"
    /\ pl_called = << "scraping", "etl" >>
    /\ pl_returned = << TRUE, FALSE >>
    /\ pl_exit = 1

\* C11: every subcommand exits with code 0 when the selected stage succeeds
\* and with code 1 when it fails (its script is missing, exits non-zero or
\* the call raises) or its prerequisite artifact is missing; without
\* --skip-checks a failed dependency check exits 1 before any stage starts.
C11_ExitCodeReflectsStage ==
    pl_pc = "exit" =>
        IF ~pl_skip /\ ~pl_deps
        THEN pl_exit = 1 /\ pl_called = << >> /\ pl_launched = << >>
        ELSE LET n == Len(pl_called)
                 failed == \E k \in 1..n :
                               \/ \A j \in 1..Len(pl_launched) :
                                      pl_launched[j] # pl_called[k]
                               \/ pl_outcomes[k] # "ok"
                 whole == pl_cmd = "pipeline" => n = Len(Steps)
             IN  pl_exit = IF ~failed /\ whole THEN 0 ELSE 1

\* C12: when the input artifact of a stage is missing (the raw table for
\* etl, the cleaned table for features and train, a model file for api and
\* dashboard), the stage's script is never launched, the operator is told
\* which earlier stage to run, and the process exits non-zero.
C12_MissingPrerequisite ==
    \A k \in 1..Len(pl_called) :
        LET st == pl_called[k]
            missing ==
                CASE st = "etl" -> "raw" \notin pl_fs
                  [] st \in { "features", "train" } -> "cleaned" \notin pl_fs
                  [] st \in { "api", "dashboard" } ->
                         "model_v1" \notin pl_fs /\ "model_v4" \notin pl_fs
                  [] OTHER -> FALSE
            prior ==
                CASE st = "etl" -> "scraping"
                  [] st \in { "features", "train" } -> "etl"
                  [] OTHER -> "train"
        IN  missing =>
                /\ \A j \in 1..Len(pl_launched) : pl_launched[j] # st
                /\ prior \in pl_told
                /\ pl_exit # 0
                /\ pl_pc = "exit" => pl_exit = 1

\* the features subcommand without a cleaned table: told to run etl, exit 1
C12_Witness ==
    /\ pl_cmd = "features"
    /\ pl_pc = "exit"
    /\ "cleaned" \notin pl_fs
    /\ "feature/run.py" \in pl_fs
    /\ pl_called = << "features" >>
    /\ pl_launched = << >>
    /\ pl_told = { "etl" }
    /\ pl_exit = 1

-----------------------------------------------------------------------------
(* Specification of limpar_colunas_localizacao on a one-row table          *)

InitLoc ==
    /\ Idle(Groups \ { "loc" })
    /\ \E s \in StateSamples, c \in CitySamples :
           loc_in = [ state |-> s, city |-> c ]
    /\ loc_kept = FALSE
    /\ loc_state = NullStr
    /\ loc_city = NullStr
    /\ loc_pc = "start"

\* df = limpar_colunas_localizacao(df); the dropna of line 39 keeps the row
\* when its state_clean is not NaN
LimparColunasLocalizacao ==
    /\ loc_pc = "start"
    /\ loc_state' = StateClean(loc_in.state.txt, loc_in.city.txt)
    /\ loc_city' = CityClean(loc_in.state.txt, loc_in.city.txt)
    /\ loc_kept' = (StateClean(loc_in.state.txt, loc_in.city.txt) # NullStr)
    /\ loc_pc' = "done"
    /\ UNCHANGED << loc_in, lateVars, priceVars, derVars, bkVars, plVars, clVars >>

SpecLoc == InitLoc /\ [][LimparColunasLocalizacao]_vars

\* C8: the cleaned state of a row is the upper-cased, trimmed state field
\* when that is a valid code; otherwise the valid code the city text ends
\* with as a token, in either case of letters; otherwise the row is dropped.
\* No retained row has a cleaned state outside the valid codes.
C8_LocationCleaning ==
    loc_pc = "done" =>
        LET field == loc_in.state.code
            tail  == loc_in.city.code
        IN  /\ field # NullStr => loc_kept /\ loc_state = field
            /\ field = NullStr /\ tail # NullStr => loc_kept /\ loc_state = tail
            /\ field = NullStr /\ tail = NullStr => ~loc_kept
            /\ loc_kept => loc_state \in UFS_BRASIL

\* a row without a state whose city is "campinas sp" is kept with state SP
C8_Witness ==
    /\ loc_pc = "done"
    /\ loc_in.state.txt = NullStr
    /\ loc_in.city.txt = << "c", "a", "m", "p", "i", "n", "a", "s", " ", "s", "p" >>
    /\ loc_kept
    /\ loc_state = << "S", "P" >>

-----------------------------------------------------------------------------
(* Specification of clean_data: one call on a table of the pool            *)

InitClean ==
    /\ Idle(Groups \ { "cl" })
    /\ cl_now \in { CURRENT_YEAR, CURRENT_YEAR + 1 }
    /\ \E n \in 1..MaxRows : cl_raw \in [ 1..n -> RowPool ]
    /\ cl_df = Labelled(cl_raw)
    /\ cl_cols = RawColumns
    /\ cl_pc = "remove_duplicates"

\* one statement of clean_data: df and its columns replaced
Step(to, rows, cols) ==
    /\ cl_pc' = to
    /\ cl_df' = rows
    /\ cl_cols' = cols
    /\ UNCHANGED << cl_now, cl_raw, lateVars, priceVars, derVars, bkVars, plVars, locVars >>

\* line 170
remove_duplicates ==
    /\ cl_pc = "remove_duplicates"
    /\ Step("clean_year",
         IF "url" \in cl_cols THEN DropDuplicates(cl_df) ELSE cl_df,
         cl_cols)

\* line 171, clean_year up to its line 51
clean_year ==
    /\ cl_pc = "clean_year"
    /\ Step("fillna_year",
         YearColumn(cl_df, cl_now), cl_cols \cup { "ano_limpo" })

\* line 171, clean_year from its line 53
fillna_year ==
    /\ cl_pc = "fillna_year"
    /\ Step("clean_price", YearImputed(cl_df), cl_cols)

\* line 173
clean_price ==
    /\ cl_pc = "clean_price"
    /\ Step("clean_km",
         PriceColumn(cl_df), cl_cols \cup { "price_clean" })

\* line 175
clean_km ==
    /\ cl_pc = "clean_km"
    /\ Step("clean_motor",
         KmColumn(cl_df, cl_cols),
         IF "quilometragem" \in cl_cols
         THEN cl_cols \cup { "quilometragem_clean" } ELSE cl_cols)

\* lines 177 and 179: the table has none of the columns motor_list,
\* potencia_do_motor and portas, so clean_motor and clean_portas return it
\* as it is
clean_motor_portas ==
    /\ cl_pc = "clean_motor"
    /\ Step("clean_text_columns", cl_df, cl_cols)

\* line 181
clean_text_columns ==
    /\ cl_pc = "clean_text_columns"
    /\ Step("clean_boolean_columns",
         TextColumns(cl_df, cl_cols), cl_cols)

\* line 183
clean_boolean_columns ==
    /\ cl_pc = "clean_boolean_columns"
    /\ Step("limpar_colunas_localizacao",
         BooleanCleaned(cl_df, cl_cols), cl_cols)

\* line 185
limpar_colunas_localizacao ==
    /\ cl_pc = "limpar_colunas_localizacao"
    /\ Step("dropna",
         DropNa(LocationColumns(cl_df), { "state_clean" }),
         cl_cols \cup { "state_clean", "zip_code_clean", "city_clean",
                         "neighborhood_clean" })

\* lines 188-190
dropna_critical ==
    /\ cl_pc = "dropna"
    /\ Step("drop_constant", DropNa(cl_df, { "price_clean", "ano_limpo" }), cl_cols)

\* line 195
drop_constant ==
    /\ cl_pc = "drop_constant"
    /\ Step("remove_dirty_columns",
         DropColumns(cl_df, ConstantColumns(cl_df, cl_cols)),
         cl_cols \ ConstantColumns(cl_df, cl_cols))

\* line 198
remove_dirty_columns ==
    /\ cl_pc = "remove_dirty_columns"
    /\ Step("done",
         DropColumns(cl_df, DirtyColumns(cl_cols)),
         cl_cols \ DirtyColumns(cl_cols))

SpecClean ==
    InitClean /\ [][\/ remove_duplicates
                 \/ clean_year
                 \/ fillna_year
                 \/ clean_price
                 \/ clean_km
                 \/ clean_motor_portas
                 \/ clean_text_columns
                 \/ clean_boolean_columns
                 \/ limpar_colunas_localizacao
                 \/ dropna_critical
                 \/ drop_constant
                 \/ remove_dirty_columns]_vars

\* C9: after deduplication the table holds at most one row per URL, each
\* surviving row is the first row of the input with its URL, a row whose
\* URL occurs once is not removed by deduplication, and no other cleaning
\* rule has touched the table when deduplication runs.
C9_DedupKeepFirst ==
    LET url(k) == cl_raw[k].url
        kept   == { cl_df[i].index : i \in 1..Len(cl_df) }
    IN  /\ cl_pc = "remove_duplicates" =>
               /\ Len(cl_df) = Len(cl_raw)
               /\ cl_cols = RawColumns
        /\ cl_pc # "remove_duplicates" =>
               /\ \A i, j \in 1..Len(cl_df) :
                      i # j => url(cl_df[i].index) # url(cl_df[j].index)
               /\ \A k \in kept : \A j \in 1..(k - 1) : url(j) # url(k)
        /\ cl_pc = "clean_year" =>
               /\ \A k \in 1..Len(cl_raw) :
                      (\A j \in 1..Len(cl_raw) : j # k => url(j) # url(k))
                          => k \in kept
               /\ cl_cols = RawColumns

\* clean_data has returned rows 1 and 3 of a table whose rows 1 and 2 share
\* their URL
C9_Witness ==
    /\ cl_pc = "done"
    /\ Len(cl_raw) = 3
    /\ cl_raw[1].url = cl_raw[2].url
    /\ cl_raw[1] # cl_raw[2]
    /\ { cl_df[i].index : i \in 1..Len(cl_df) } = { 1, 3 }

\* C3: before imputation the cleaned year is the year given (the numeric
\* year field, else the first four-digit token of the title) when that lies
\* in [1980, current year + 1] and null otherwise; after imputation every
\* row whose year was null carries the median of the in-range years of the
\* deduplicated table, and in-range years are unchanged.
C3_YearRangeAndMedian ==
    LET given(r)   == IF IsNum(r.ano) THEN r.ano ELSE r.g_title_year
        inrange(y) == IsNum(y) /\ Val(y) >= 4 * 1980 /\ Val(y) <= 4 * (cl_now + 1)
        firsts     == { k \in 1..Len(cl_raw) :
                          \A j \in 1..(k - 1) : cl_raw[j].url # cl_raw[k].url }
        pool       == { k \in firsts : inrange(given(cl_raw[k])) }
        year(k)    == Val(given(cl_raw[k]))
        below(x)   == Cardinality({ k \in pool : year(k) < x })
        upto(x)    == Cardinality({ k \in pool : year(k) <= x })
        kth(n)     == CHOOSE x \in { year(k) : k \in pool } :
                          below(x) < n /\ n <= upto(x)
        size       == Cardinality(pool)
        median     == IF size = 0 THEN NaN
                      ELSE IF size % 2 = 1 THEN Num(kth((size + 1) \div 2))
                      ELSE Num((kth(size \div 2) + kth(size \div 2 + 1)) \div 2)
    IN  /\ cl_pc = "fillna_year" =>
               \A i \in 1..Len(cl_df) :
                   cl_df[i].ano_limpo =
                       IF inrange(given(cl_df[i])) THEN given(cl_df[i]) ELSE NaN
        /\ cl_pc = "clean_price" =>
               \A i \in 1..Len(cl_df) :
                   cl_df[i].ano_limpo =
                       IF inrange(given(cl_df[i])) THEN given(cl_df[i]) ELSE median

\* a row of year 1979 carries 2014, the median of 2018 and 2010, the years
\* of the two other rows
C3_Witness ==
    /\ cl_pc = "clean_price"
    /\ Len(cl_df) = 3
    /\ \E i \in 1..3 :
           /\ cl_df[i].ano = Num(4 * 1979)
           /\ cl_df[i].ano_limpo = Num(4 * 2014)
    /\ \E i \in 1..3 : cl_df[i].ano_limpo = Num(4 * 2018)
    /\ \E i \in 1..3 : cl_df[i].ano_limpo = Num(4 * 2010)

\* C1: every row of the table clean_data returns has a non-null cleaned
\* price, a non-null cleaned year and a state among the valid codes, and
\* came from a raw row whose price reads as a number in [1000, 1000000] and
\* whose state is named by the state field or by the end of the city.
C1_RetainedRowsComplete ==
    cl_pc = "done" =>
        \A i \in 1..Len(cl_df) :
            /\ { "price_clean", "ano_limpo", "state_clean" } \subseteq cl_cols
            /\ IsNum(cl_df[i].price_clean)
            /\ IsNum(cl_df[i].ano_limpo)
            /\ cl_df[i].state_clean \in UFS_BRASIL
            /\ IsNum(cl_df[i].g_price)
            /\ Val(cl_df[i].g_price) >= 100 * 1000
            /\ Val(cl_df[i].g_price) <= 100 * 1000000
            /\ cl_df[i].g_state # NullStr

-----------------------------------------------------------------------------
(* Specification of clean_boolean_columns on one object column             *)

MaxBoolRows == 3

InitBool ==
    /\ Idle(Groups \ { "bo" })
    \* the values of the column: the spellings of line 116, one of them
    \* padded, a missing value, and a text that is no boolean spelling
    /\ \E n \in 1..MaxBoolRows :
           bo_in \in [ 1..n -> { << "T", "r", "u", "e" >>,
                                 << "f", "a", "l", "s", "e" >>,
                                 << "1" >>, << " ", "0" >>, << >>, NullStr,
                                 << "S", "i", "m" >> } ]
    /\ bo_out = << >>
    /\ bo_coerced = FALSE
    /\ bo_pc = "start"

\* lines 113-127, on a table whose one object column is "flag"
CleanBooleanColumn ==
    /\ bo_pc = "start"
    /\ LET rows == [ i \in 1..Len(bo_in) |-> [ flag |-> bo_in[i] ] ]
           out  == BooleanCleaned(rows, { "flag" })
       IN  /\ bo_coerced' = ("flag" \in BooleanColumns(rows, { "flag" }))
           /\ bo_out' = [ i \in 1..Len(bo_in) |-> out[i].flag ]
    /\ bo_pc' = "done"
    /\ UNCHANGED << bo_in, trVars, svVars, stVars, rgVars, cqVars, priceVars, derVars, bkVars, plVars, locVars,
                    clVars >>

SpecBool == InitBool /\ [][CleanBooleanColumn]_vars

\* C20: a column whose non-null values are all boolean spellings (read
\* without surrounding blanks) is coerced, nulls included: true-like values
\* become true, false-like, empty and null values become false; a column
\* with any other non-null value is returned as it was.
C20_BooleanCoercion ==
    bo_pc = "done" =>
        LET trimmed(v) == IF v = NullStr THEN v ELSE Strip(v)
            trueLike  == { << "T", "r", "u", "e" >>, << "t", "r", "u", "e" >>,
                           << "1" >> }
            falseLike == { << "F", "a", "l", "s", "e" >>,
                           << "f", "a", "l", "s", "e" >>, << "0" >>, << >> }
            boolean == \A i \in 1..Len(bo_in) :
                           \/ bo_in[i] = NullStr
                           \/ trimmed(bo_in[i]) \in trueLike \cup falseLike
        IN  IF boolean
            THEN /\ bo_coerced
                 /\ Len(bo_out) = Len(bo_in)
                 /\ \A i \in 1..Len(bo_in) :
                        bo_out[i] = IF trimmed(bo_in[i]) \in trueLike
                                    THEN << "T", "r", "u", "e" >>
                                    ELSE << "F", "a", "l", "s", "e" >>
            ELSE ~bo_coerced /\ bo_out = bo_in

-----------------------------------------------------------------------------
(* Specification of the training script, models/train.py                   *)

\* lines 47-48
COLS_TO_DROP ==
    { "log_price", "price_clean", "url", "title_list", "description",
      "color_list", "modelo", "city_clean", "neighborhood_clean",
      "ano_limpo" }

InitTrain ==
    /\ Idle(Groups \ { "tr" })
    /\ tr_fs \in SUBSET { "cleaned", "features", "model_v4" }
    /\ \E more \in SUBSET { "url", "modelo", "city_clean", "motor_clean",
                            "cor" } :
           \* with the columns lines 28-41 read by name
           tr_cols = { "price_clean", "ano_limpo", "quilometragem_clean",
                       "state_clean", "marca" } \cup more
    /\ tr_read = "none"
    /\ tr_X = { }
    /\ tr_written = { }
    /\ tr_pc = "load_and_prep_data"
    /\ tr_exit = -1

\* lines 21-53, called at line 94: pd.read_csv of the cleaned table raises
\* FileNotFoundError when the file is absent, which main does not catch
load_and_prep_data ==
    /\ tr_pc = "load_and_prep_data"
    /\ IF "cleaned" \in tr_fs
       THEN /\ tr_read' = "cleaned"
            /\ tr_X' = (tr_cols \cup { "log_price", "car_age", "km_per_year" })
                           \ COLS_TO_DROP
            /\ tr_pc' = "build_preprocessor"
            /\ UNCHANGED tr_exit
       ELSE /\ tr_pc' = "ended"
            /\ tr_exit' = 1
            /\ UNCHANGED << tr_read, tr_X >>
    /\ UNCHANGED << tr_fs, tr_cols, tr_written, boVars, svVars, stVars, rgVars, cqVars, priceVars, derVars,
                    bkVars, plVars, locVars, clVars >>

\* lines 55-85, called at line 97: line 58 calls X_columns.dtype, a dtype
\* object, for the first column of X_columns; the TypeError ends main
\* before the fit of line 106 and the dump of line 113
build_preprocessor ==
    /\ tr_pc = "build_preprocessor"
    /\ tr_X # { }
    /\ tr_pc' = "ended"
    /\ tr_exit' = 1
    /\ UNCHANGED << tr_fs, tr_cols, tr_read, tr_X, tr_written, boVars, svVars,
                    stVars, rgVars, cqVars, priceVars, derVars, bkVars, plVars, locVars, clVars >>

SpecTrain == InitTrain /\ [][load_and_prep_data \/ build_preprocessor]_vars

\* C18: a run of the training script on an existing cleaned corpus that has
\* the columns the script reads ends with the pipeline artifact written and
\* exit code 0.
C18_TrainingPersistsArtifact ==
    (tr_pc = "ended" /\ "cleaned" \in tr_fs) =>
        /\ "model_v4" \in tr_written
        /\ tr_exit = 0

\* C19: the table the training script reads is the featurized table written
\* by feature derivation, so its data loading succeeds only when that table
\* exists.
C19_TrainingReadsFeaturizedTable ==
    tr_read # "none" =>
        /\ tr_read = "features"
        /\ "features" \in tr_fs

-----------------------------------------------------------------------------
(* Specification of the prediction service, api/                           *)

\* The cleaned tables the service may find on disk.  In each, twenty-one
\* brands occur: nineteen hold BulkCount rows and the last two hold two rows
\* and one row, in either order, so that head(20) keeps one of them; one of
\* the states SP and RJ occurs THRESHOLD times and the other once less; the
\* columns, each with the dtype pd.read_csv gives it, come in one of two
\* layouts, one for each order of the brands.  "opcional_extra" stands for a
\* boolean column of the table that build_features_dict does not name.
ServeCorpora ==
    LET col(n, t) == [ name |-> n, dtype |-> t ]
        layouts ==
            << << col("url", "object"), col("price_clean", "float64"),
                  col("motor_clean", "float64"), col("marca", "object"),
                  col("state_clean", "object"), col("cor", "object"),
                  col("air_bag", "bool"), col("zip_code_clean", "float64"),
                  col("categoria", "object") >>,
               << col("zip_code_clean", "int64"), col("air_bag", "object"),
                  col("price_clean", "float64"), col("state_clean", "object"),
                  col("opcional_extra", "bool"), col("marca", "object"),
                  col("motor_clean", "int64") >> >>
    IN  { [ brands |-> [ b \in BrandIds |->
                           IF b = BRAND_OTHER THEN 0
                           ELSE IF b <= NBulk + 1 THEN BulkCount
                           ELSE IF b = NBulk + 2 THEN k
                           ELSE IF b = NBulk + 3 THEN 3 - k
                           ELSE 0 ],
            states |-> [ v \in StateNames |->
                           IF v = "SP" THEN sp ELSE 2 * THRESHOLD - 1 - sp ],
            cols |-> layouts[k] ] :
          k \in 1..2, sp \in { THRESHOLD - 1, THRESHOLD } }

\* CarFeatures (api/models.py): marca and state are required; motor and cor
\* are optional and None when left out, here both sent or both left out;
\* air_bag is an optional flag that is left out ("unset"), sent as null
\* ("None") or sent as true.  The last brand and the state MG occur in no
\* table.
Requests ==
    { [ marca |-> who[1], state |-> who[2],
        motor |-> IF sent THEN "1.6" ELSE "None",
        cor |-> IF sent THEN "Azul" ELSE "None",
        air_bag |-> flag ] :
      who \in { << NBulk + 2, "SP" >>, << NBulk + 3, "RJ" >>,
                << NBulk + NTail + 1, "MG" >> },
      sent \in BOOLEAN,
      flag \in { "unset", "None", "True" } }

\* the brand passed through whatever the set held
BrandPassedThrough(marca, top) == marca

\* lines 68-72; top is { } when top_20_brands is None
get_brand_mapping(marca, top) ==
    IF \E T \in top : T # { } /\ marca \in T THEN marca ELSE BRAND_OTHER

\* lines 74-78; rare is { } when rare_states is None
get_state_mapping(state, rare) ==
    IF \E R \in rare : R # { } /\ state \in R THEN STATE_OTHER ELSE state

\* feature_processor.py lines 41-89, for the fields of Requests; a flag left
\* out of the request has the default False of api/models.py line 24
build_features_dict(car, top, rare) ==
    [ motor_clean |-> car.motor,
      marca       |-> get_brand_mapping(car.marca, top),
      state_clean |-> get_state_mapping(car.state, rare),
      cor         |-> car.cor,
      air_bag     |-> IF car.air_bag = "unset" THEN "False" ELSE car.air_bag ]

\* every missing column filled with None
ColumnDefaultNull(dtype) == "None"

\* lines 105-111: the value given to an expected column the table lacks
ColumnDefault(dtype) ==
    IF dtype = "bool" THEN "False"
    ELSE IF dtype \in { "float64", "int64" } THEN "0.0"
    ELSE "None"

\* lines 91-124: the one-row table, as the sequence of its columns with
\* their values; expected is { } when get_expected_columns returns None
prepare_features(car, top, rare, expected) ==
    LET features == build_features_dict(car, top, rare)
        keys == << "motor_clean", "marca", "state_clean", "cor", "air_bag" >>
        \* lines 114-121: a column of the table brought to the dtype
        coerce(dtype, v) ==
            CASE dtype = "bool" ->
                     IF v \in { "None", "False" } THEN "False" ELSE "True"
              [] dtype = "int64" ->
                     IF v \in { "1.6", "True" } THEN "1" ELSE "0"
              [] dtype = "float64" ->
                     IF v = "1.6" THEN "1.6"
                     ELSE IF v = "True" THEN "1.0" ELSE "0.0"
              [] OTHER -> v
    IN  IF expected = { }
        THEN [ i \in 1..Len(keys) |->
                 [ name |-> keys[i], value |-> features[keys[i]] ] ]
        ELSE LET cols == CHOOSE e \in expected : TRUE
             IN  [ i \in 1..Len(cols) |->
                     [ name  |-> cols[i].name,
                       value |-> IF cols[i].name \notin DOMAIN features
                                 THEN ColumnDefault(cols[i].dtype)
                                 ELSE coerce(cols[i].dtype,
                                             features[cols[i].name]) ] ]

\* a prediction returned without the test of line 54
PredictResponseUnchecked(loaded, raised) ==
    IF raised THEN "error" ELSE "prediction"

\* main.py lines 53-76: HTTPException 500 when the model is None or when
\* anything raised inside the try block, the prediction otherwise
PredictResponse(loaded, raised) ==
    IF ~loaded \/ raised THEN "error" ELSE "prediction"

\* The module is imported: model_loader holds None in every field (lines
\* 10-15) and the lifespan has not run.  Either no artifact is on disk, or
\* one is, trained on the cleaned table on disk: load_and_prep_data lines
\* 37-43 computed its rare states and its top brands from that table.
InitServe ==
    /\ Idle(Groups \ { "sv" })
    /\ \/ /\ sv_trained = { }
          /\ sv_corpus \in { { } } \cup { { c } : c \in ServeCorpora }
       \/ \E c \in ServeCorpora : \E T \in TopSets(c.brands) :
              /\ sv_corpus = { c }
              /\ sv_trained = { [ top |-> T, rare |-> RareStates(c.states),
                                  counts |-> c.states ] }
    /\ sv_pc = "created"
    /\ sv_model = FALSE
    /\ sv_top = { }
    /\ sv_rare = { }
    /\ sv_expected = { }
    /\ sv_req = { }
    /\ sv_feat = << >>
    /\ sv_raised = FALSE
    /\ sv_resp = "none"
    /\ sv_prev = "none"

\* etl/run.py lines 227-229: a later run of cleaning writes another table
EtlRewrite ==
    /\ sv_pc \in { "created", "serving" }
    /\ \E c \in ServeCorpora :
           /\ sv_corpus # { c }
           /\ sv_corpus' = { c }
    /\ UNCHANGED << sv_trained, sv_pc, sv_model, sv_top, sv_rare, sv_expected,
                    sv_req, sv_feat, sv_raised, sv_resp, sv_prev, boVars,
                    trVars, stVars, rgVars, cqVars, priceVars, derVars, bkVars, plVars, locVars,
                    clVars >>

\* main.py lines 25-32 calling model_loader.py lines 17-62
Load ==
    /\ sv_pc = "created"
    /\ IF sv_trained = { }
       THEN /\ sv_pc' = "failed"           \* line 25: FileNotFoundError
            /\ UNCHANGED << sv_model, sv_top, sv_rare, sv_expected >>
       ELSE /\ sv_pc' = "serving"
            /\ sv_model' = TRUE
            /\ IF sv_corpus = { }           \* line 30
               THEN UNCHANGED << sv_top, sv_rare, sv_expected >>
               ELSE \E c \in sv_corpus : \E T \in TopSets(c.brands) :
                        LET kept(x) == x.name \notin COLS_TO_DROP
                        IN  /\ sv_rare' = { RareStates(c.states) }
                            /\ sv_top' = { T }
                            /\ sv_expected' = { SelectSeq(c.cols, kept) }
    /\ UNCHANGED << sv_trained, sv_corpus, sv_req, sv_feat, sv_raised, sv_resp,
                    sv_prev, boVars, trVars, stVars, rgVars, cqVars, priceVars, derVars, bkVars, plVars,
                    locVars, clVars >>

\* main.py lines 46-76, for any request and whether model.predict raises
Predict ==
    /\ sv_pc \in { "created", "serving" }
    /\ \E car \in Requests, raised \in BOOLEAN :
           /\ sv_req' = { car }
           /\ sv_feat' = IF sv_model
                         THEN prepare_features(car, sv_top, sv_rare, sv_expected)
                         ELSE << >>
           /\ sv_raised' = (sv_model /\ raised)
           /\ sv_resp' = PredictResponse(sv_model, raised)
    /\ sv_prev' = sv_resp
    /\ UNCHANGED << sv_trained, sv_corpus, sv_pc, sv_model, sv_top, sv_rare,
                    sv_expected, boVars, trVars, stVars, rgVars, cqVars, priceVars, derVars, bkVars,
                    plVars, locVars, clVars >>

SpecServe == InitServe /\ [][EtlRewrite \/ Load \/ Predict]_vars

\* C13: when the service answers a request, the top-20 brand set and the
\* rare-state set it applies are the sets computed when the artifact was
\* trained, whether or not the cleaned table was rewritten since.
C13_VocabulariesFromTraining ==
    (sv_pc = "serving" /\ sv_req # { }) =>
        \A t \in sv_trained :
            /\ sv_top = { t.top }
            /\ sv_rare = { t.rare }

\* C14: every predict request answered with the model loaded has its
\* feature row built, and in that row the brand is the request's brand if
\* the top-20 set held by the service contains it and BRAND_OTHER if not.
C14_UnknownBrandMapped ==
    [][ (sv_model /\ << sv_req, sv_feat, sv_raised, sv_resp, sv_prev >>'
                       # << sv_req, sv_feat, sv_raised, sv_resp, sv_prev >>) =>
            \A car \in sv_req' :
                \E i \in 1..Len(sv_feat') :
                    /\ sv_feat'[i].name = "marca"
                    /\ sv_feat'[i].value =
                           IF \E T \in sv_top : car.marca \in T
                           THEN car.marca ELSE BRAND_OTHER ]_vars

\* a request with a brand that occurs in no table, answered with a
\* prediction from a row whose brand is BRAND_OTHER
C14_Witness ==
    /\ sv_resp = "prediction"
    /\ sv_top # { }
    /\ \E car \in sv_req :
           /\ car.marca = NBulk + NTail + 1
           /\ \E i \in 1..Len(sv_feat) :
                  sv_feat[i].name = "marca" /\ sv_feat[i].value = BRAND_OTHER

\* C15: in the feature row of a request the state is the request's state
\* if that state occurs at least 50 times in the table the artifact was
\* trained on, and STATE_OTHER if it occurs less often or not at all
\* (stated for a service whose rare-state set is the one of training).
C15_StateBucketAtPrediction ==
    \A t \in sv_trained :
        (sv_rare = { t.rare } /\ sv_feat # << >>) =>
            \A car \in sv_req :
                LET freq == IF car.state \in DOMAIN t.counts
                            THEN t.counts[car.state] ELSE 0
                IN  \E i \in 1..Len(sv_feat) :
                        /\ sv_feat[i].name = "state_clean"
                        /\ sv_feat[i].value =
                               IF freq >= 50 THEN car.state ELSE STATE_OTHER

\* C16, as stated: with the expected column list available, the table
\* prepare_features returns has exactly the expected columns in the expected
\* order, and each expected column the request does not supply holds false
\* if its training dtype is boolean, zero if it is numeric and null
\* otherwise.
C16_PreparedColumns ==
    \A cols \in sv_expected : \A car \in sv_req :
        sv_feat # << >> =>
            /\ Len(sv_feat) = Len(cols)
            /\ \A i \in 1..Len(cols) :
                   LET supplied ==
                           CASE cols[i].name \in { "marca", "state_clean" } -> TRUE
                             [] cols[i].name = "motor_clean" -> car.motor # "None"
                             [] cols[i].name = "cor" -> car.cor # "None"
                             [] cols[i].name = "air_bag" ->
                                    car.air_bag \notin { "unset", "None" }
                             [] OTHER -> FALSE
                   IN  /\ sv_feat[i].name = cols[i].name
                       /\ ~supplied =>
                              CASE cols[i].dtype = "bool" ->
                                       sv_feat[i].value = "False"
                                [] cols[i].dtype \in { "float64", "int64" } ->
                                       sv_feat[i].value \in { "0", "0.0" }
                                [] OTHER -> sv_feat[i].value = "None"

\* C16, amended: as above, except that a boolean flag of the request schema
\* that the request leaves out holds the schema's default false, not null,
\* when the training dtype of its column is neither boolean nor numeric.
C16_PreparedColumnsAmended ==
    \A cols \in sv_expected : \A car \in sv_req :
        sv_feat # << >> =>
            /\ Len(sv_feat) = Len(cols)
            /\ \A i \in 1..Len(cols) :
                   LET supplied ==
                           CASE cols[i].name \in { "marca", "state_clean" } -> TRUE
                             [] cols[i].name = "motor_clean" -> car.motor # "None"
                             [] cols[i].name = "cor" -> car.cor # "None"
                             [] cols[i].name = "air_bag" ->
                                    car.air_bag \notin { "unset", "None" }
                             [] OTHER -> FALSE
                       flagLeftOut ==
                           cols[i].name = "air_bag" /\ car.air_bag = "unset"
                   IN  /\ sv_feat[i].name = cols[i].name
                       /\ ~supplied =>
                              CASE cols[i].dtype = "bool" ->
                                       sv_feat[i].value = "False"
                                [] cols[i].dtype \in { "float64", "int64" } ->
                                       sv_feat[i].value \in { "0", "0.0" }
                                [] OTHER ->
                                       sv_feat[i].value =
                                           IF flagLeftOut THEN "False" ELSE "None"

\* a request that sends only brand and state, answered with a prediction
\* from a row in which the missing numeric column, the missing boolean
\* column and the unsent engine size hold their defaults
C16_Witness ==
    /\ sv_resp = "prediction"
    /\ \E car \in sv_req :
           car.motor = "None" /\ car.cor = "None" /\ car.air_bag = "None"
    /\ Len(sv_feat) = 6
    /\ sv_feat[1] = [ name |-> "zip_code_clean", value |-> "0.0" ]
    /\ sv_feat[2] = [ name |-> "air_bag", value |-> "None" ]
    /\ sv_feat[4] = [ name |-> "opcional_extra", value |-> "False" ]
    /\ sv_feat[6] = [ name |-> "motor_clean", value |-> "0" ]

\* C17: a predict request made while the model is not loaded gets an error
\* response and no feature row or prediction; a request during which an
\* exception was raised gets an error response; every other request gets a
\* prediction; no request changes what the service loaded or stops the
\* service, so after an error response it still answers requests.
C17_ServingErrors ==
    [][ (<< sv_req, sv_feat, sv_raised, sv_resp, sv_prev >>'
             # << sv_req, sv_feat, sv_raised, sv_resp, sv_prev >>) =>
            /\ sv_resp' =
                   IF sv_model /\ ~sv_raised' THEN "prediction" ELSE "error"
            /\ ~sv_model => sv_feat' = << >>
            /\ sv_model => sv_feat' # << >>
            /\ << sv_model, sv_top, sv_rare, sv_expected, sv_pc >>'
                   = << sv_model, sv_top, sv_rare, sv_expected, sv_pc >>
            /\ sv_pc' \in { "created", "serving" } ]_vars

\* a prediction given right after a request that failed on an exception
C17_Witness ==
    /\ sv_model
    /\ sv_prev = "error"
    /\ sv_resp = "prediction"
    /\ ~sv_raised

\* C30: a numeric field the request leaves unset (here the engine size) is
\* null in the table prepare_features hands to the model.
C30_UnsetNumericStaysNull ==
    \A cols \in sv_expected : \A car \in sv_req :
        sv_feat # << >> =>
            \A i \in 1..Len(cols) :
                (cols[i].name = "motor_clean" /\ car.motor = "None") =>
                    /\ i <= Len(sv_feat)
                    /\ sv_feat[i].name = "motor_clean"
                    /\ sv_feat[i].value = "None"

\* C29: a table with at least one row returned by clean_data has the
\* columns price_clean, ano_limpo and state_clean, and marca, which every
\* input table here has.
C29_RequiredColumnsKept ==
    (cl_pc = "done" /\ Len(cl_df) >= 1) =>
        { "price_clean", "ano_limpo", "state_clean", "marca" } \subseteq cl_cols

\* C22: the constant-column drop removes a column if and only if its value
\* is the same in every remaining row, a null being a value different from
\* every non-null value.
C22_ConstantColumnDrop ==
    [][ cl_pc = "drop_constant" =>
            \A c \in cl_cols :
                (c \notin cl_cols') <=>
                    \A i, j \in 1..Len(cl_df) : cl_df[i][c] = cl_df[j][c] ]_vars

\* C21: for a row whose state comes from a valid state field, the cleaned
\* city is exactly the lower-cased, trimmed city text; the trailing state
\* token is stripped only when the state was recovered from the city.
C21_CityStrippedOnlyWhenRecovered ==
    (loc_pc = "done" /\ loc_in.state.code # NullStr) =>
        loc_city = LowerTrimmed(loc_in.city.txt)

\* C24: the raw row with price_list "R$ 50.000", ano 2018, quilometragem
\* 40000, state "sp" and marca "Toyota", cleaned and then featurized with
\* current year 2025, yields cleaned price 50000, year 2018, state "SP",
\* car_age 7 and km_per_year 40000/7.
C24_EndToEndScenario ==
    (/\ cl_pc = "done"
     /\ \E i \in 1..Len(cl_raw) :
            /\ cl_raw[i].price_list = << "R", "$", " ", "5", "0", ".", "0", "0", "0" >>
            /\ cl_raw[i].ano = Num(4 * 2018)
            /\ cl_raw[i].quilometragem = Num(40000)
            /\ cl_raw[i].state = << "s", "p" >>
            /\ cl_raw[i].marca = << "T", "o", "y", "o", "t", "a" >>) =>
        /\ { "price_clean", "ano_limpo", "state_clean", "quilometragem_clean" }
               \subseteq cl_cols
        /\ \E j \in 1..Len(cl_df) :
               /\ cl_df[j].price_clean = Num(50000 * 100)
               /\ cl_df[j].ano_limpo = Num(4 * 2018)
               /\ cl_df[j].state_clean = << "S", "P" >>
               /\ CarAge(Val(cl_df[j].ano_limpo)) = 4 * 7
               /\ KmPerYearTrain(KmFill(cl_df[j].quilometragem_clean),
                                 CarAge(Val(cl_df[j].ano_limpo)))
                      = Quot(4 * 40000, 4 * 7)

-----------------------------------------------------------------------------
(* Specification of the stages run as scripts: the __main__ blocks of      *)
(* etl/run.py and feature/run.py, on one input file.  clean_data is taken  *)
(* by its outcome: how many rows it leaves and whether any column varies.  *)

\* the raw columns clean_data indexes without testing for them:
\* title_list (line 46), price_list (58), state (12), zip_code (15),
\* city (18), neighborhood (21); ano is read with df.get and may be absent
ETL_REQUIRED ==
    { "title_list", "price_list", "state", "zip_code", "city", "neighborhood" }

\* required_cols of build_features
FEATURE_REQUIRED == { "price_clean", "ano_limpo", "state_clean", "marca" }

\* the largest number of rows of an input file
MaxStageRows == 2

EtlExitUnchecked(input, survive, allconst) ==
    IF ~input.exists THEN 1
    ELSE IF input.rows = 0 THEN 1
    ELSE IF ~(ETL_REQUIRED \subseteq input.cols) THEN 1
    ELSE 0

\* the exit code of etl/run.py: FileNotFoundError, ValueError (empty input),
\* KeyError (a column clean_data indexes is absent), ValueError (nothing
\* left: df_cleaned.empty is true without rows and without columns, and a
\* single row leaves no column after the constant-column drop) -> 1
EtlExit(input, survive, allconst) ==
    IF ~input.exists THEN 1
    ELSE IF input.rows = 0 THEN 1
    ELSE IF ~(ETL_REQUIRED \subseteq input.cols) THEN 1
    ELSE IF survive <= 1 \/ allconst THEN 1
    ELSE 0

\* the exit code of feature/run.py: FileNotFoundError, ValueError (empty
\* input), ValueError (required column missing), KeyError at line 21 when
\* the table has no quilometragem_clean column -> 1
FeatureExit(input) ==
    IF ~input.exists THEN 1
    ELSE IF input.rows = 0 THEN 1
    ELSE IF ~(FEATURE_REQUIRED \subseteq input.cols) THEN 1
    ELSE IF "quilometragem_clean" \notin input.cols THEN 1
    ELSE 0

InitStage ==
    /\ Idle(Groups \ { "st" })
    /\ st_stage \in { "etl", "feature" }
    /\ \/ st_in = [ exists |-> FALSE, rows |-> 0, cols |-> { } ]
       \/ LET AllButOne(S) == { S } \cup { S \ { c } : c \in S }
          IN
          \E n \in 0..MaxStageRows :
              \E cols \in IF st_stage = "etl"
                          THEN AllButOne(ETL_REQUIRED)
                                   \cup AllButOne(ETL_REQUIRED \cup { "ano" })
                          ELSE AllButOne(FEATURE_REQUIRED
                                   \cup { "quilometragem_clean", "motor_clean" }) :
                  st_in = [ exists |-> TRUE, rows |-> n, cols |-> cols ]
    /\ st_survive \in IF st_stage = "etl" THEN 0..st_in.rows ELSE { 0 }
    /\ st_allconst \in IF st_stage = "etl" /\ st_survive >= 2 THEN BOOLEAN ELSE { FALSE }
    /\ st_out \in { "absent", "old" }
    /\ st_exit = -1
    /\ st_pc = "start"

\* python src/etl/run.py: the output is written by lines 227-229, after
\* clean_data has returned and df_cleaned.empty has been tested
etl_main ==
    /\ st_pc = "start"
    /\ st_stage = "etl"
    /\ st_exit' = EtlExit(st_in, st_survive, st_allconst)
    /\ st_out' = IF EtlExit(st_in, st_survive, st_allconst) = 0 THEN "new" ELSE st_out
    /\ st_pc' = "done"
    /\ UNCHANGED << st_stage, st_in, st_survive, st_allconst, boVars, trVars, svVars,
                    rgVars, cqVars, priceVars, derVars, bkVars, plVars, locVars, clVars >>

\* python src/feature/run.py: the output is written by lines 58-59
feature_main ==
    /\ st_pc = "start"
    /\ st_stage = "feature"
    /\ st_exit' = FeatureExit(st_in)
    /\ st_out' = IF FeatureExit(st_in) = 0 THEN "new" ELSE st_out
    /\ st_pc' = "done"
    /\ UNCHANGED << st_stage, st_in, st_survive, st_allconst, boVars, trVars, svVars,
                    rgVars, cqVars, priceVars, derVars, bkVars, plVars, locVars, clVars >>

SpecStage == InitStage /\ [][etl_main \/ feature_main]_vars

\* C23: feature derivation exits non-zero without writing a feature table
\* when the cleaned input table is empty or lacks price_clean, ano_limpo,
\* state_clean or marca, and does not fail for an input that is non-empty
\* and has those four columns.
C23_FeatureFatalErrors ==
    (st_pc = "done" /\ st_stage = "feature" /\ st_in.exists) =>
        /\ (st_in.rows = 0 \/ ~(FEATURE_REQUIRED \subseteq st_in.cols)) =>
               (st_exit # 0 /\ st_out # "new")
        /\ (st_in.rows > 0 /\ FEATURE_REQUIRED \subseteq st_in.cols) =>
               st_exit = 0

\* C28: the cleaning run exits non-zero and leaves the cleaned file as it
\* was when the raw file is missing, the raw table is empty, a required raw
\* column is absent or no row survives; the file is written only by a run
\* in which clean_data completed on the batch.
C28_NoPartialSuccess ==
    (st_pc = "done" /\ st_stage = "etl") =>
        /\ (\/ ~st_in.exists
            \/ st_in.rows = 0
            \/ ~(ETL_REQUIRED \subseteq st_in.cols)
            \/ st_survive = 0) =>
               (st_exit # 0 /\ st_out # "new")
        /\ st_out = "new" =>
               /\ st_in.exists
               /\ st_in.rows > 0
               /\ ETL_REQUIRED \subseteq st_in.cols
               /\ st_survive > 0
               /\ st_exit = 0

\* a raw table with every required column whose rows are all dropped by
\* clean_data: the run fails and the older cleaned file stays
C28_Witness ==
    /\ st_pc = "done"
    /\ st_stage = "etl"
    /\ st_in.exists
    /\ st_in.rows = 2
    /\ ETL_REQUIRED \subseteq st_in.cols
    /\ st_survive = 0
    /\ st_exit = 1
    /\ st_out = "old"

-----------------------------------------------------------------------------
(* Specification of clean_km, clean_motor and clean_portas on one raw      *)
(* value.  Cleaned values are counted in hundredths of their unit.         *)

\* the bounds of lines 85 and 91 (0.5 and 10) and of line 98 (2 and 5)
MOTOR_MIN == 50
MOTOR_MAX == 1000
PORTAS_MIN == 200
PORTAS_MAX == 500

\* str.extract(r'(\d+\.?\d*)') when dot, str.extract(r'(\d+)') otherwise:
\* the leftmost run of digits, with a dot and the digits after it; << >>
\* when the text has no digit
FirstNumber(s, dot) ==
    LET digit(i) == i >= 1 /\ i <= Len(s) /\ s[i] \in Digits
        RunEnd(i) == CHOOSE j \in (i - 1)..Len(s) :
                         /\ \A k \in i..j : digit(k)
                         /\ ~digit(j + 1)
    IN  IF \E i \in 1..Len(s) : digit(i)
        THEN LET b == CHOOSE i \in 1..Len(s) :
                          digit(i) /\ \A k \in 1..(i - 1) : ~digit(k)
                 j == RunEnd(b)
                 e == IF dot /\ j + 1 <= Len(s) /\ s[j + 1] = "."
                      THEN RunEnd(j + 2) ELSE j
             IN  SubSeq(s, b, e)
        ELSE << >>

InitRange ==
    /\ Idle(Groups \ { "rg" })
    /\ rg_col \in { "km_list", "quilometragem", "motor_list", "potencia_do_motor", "portas" }
    /\ rg_raw \in
         CASE rg_col = "km_list" ->
                { [ txt |-> << "4", "5", ".", "0", "0", "0", " ", "k", "m" >>, num |-> NaN, value |-> Num(4500000) ],
                  [ txt |-> << "0" >>, num |-> NaN, value |-> Num(0) ],
                  [ txt |-> << "1", ".", "0", "0", "0", ".", "0", "0", "0" >>, num |-> NaN, value |-> Num(100000000) ],
                  [ txt |-> << "1", ".", "0", "0", "0", ".", "0", "0", "1" >>, num |-> NaN, value |-> Num(100000100) ],
                  [ txt |-> << "-", "5" >>, num |-> NaN, value |-> Num(-500) ],
                  [ txt |-> << "k", "m" >>, num |-> NaN, value |-> NaN ],
                  [ txt |-> NullStr, num |-> NaN, value |-> NaN ],
                  [ txt |-> << "1", "2", ",", "5" >>, num |-> NaN, value |-> Num(1250) ],
                  [ txt |-> << "4", "0", "0", "0", "0" >>, num |-> NaN, value |-> Num(4000000) ],
                  [ txt |-> << " ", "7", " ", "k", "m", " " >>, num |-> NaN, value |-> Num(700) ] }
           [] rg_col = "quilometragem" ->
                { [ txt |-> << >>, num |-> NaN, value |-> NaN ],
                  [ txt |-> << >>, num |-> Num(-5), value |-> Num(-500) ],
                  [ txt |-> << >>, num |-> Num(0), value |-> Num(0) ],
                  [ txt |-> << >>, num |-> Num(1), value |-> Num(100) ],
                  [ txt |-> << >>, num |-> Num(40000), value |-> Num(4000000) ],
                  [ txt |-> << >>, num |-> Num(1000000), value |-> Num(100000000) ],
                  [ txt |-> << >>, num |-> Num(1000001), value |-> Num(100000100) ] }
           [] rg_col = "portas" ->
                { [ txt |-> << "4" >>, num |-> NaN, value |-> Num(400) ],
                  [ txt |-> << "4", " ", "p", "o", "r", "t", "a", "s" >>, num |-> NaN, value |-> Num(400) ],
                  [ txt |-> << "2" >>, num |-> NaN, value |-> Num(200) ],
                  [ txt |-> << "5" >>, num |-> NaN, value |-> Num(500) ],
                  [ txt |-> << "1" >>, num |-> NaN, value |-> Num(100) ],
                  [ txt |-> << "6" >>, num |-> NaN, value |-> Num(600) ],
                  [ txt |-> << "1", "2" >>, num |-> NaN, value |-> Num(1200) ],
                  [ txt |-> << "4", ".", "0" >>, num |-> NaN, value |-> Num(400) ],
                  [ txt |-> << "-", "3" >>, num |-> NaN, value |-> Num(-300) ],
                  [ txt |-> << "d", "u", "a", "s" >>, num |-> NaN, value |-> NaN ],
                  [ txt |-> NullStr, num |-> NaN, value |-> NaN ],
                  [ txt |-> << "0" >>, num |-> NaN, value |-> Num(0) ],
                  [ txt |-> << "3" >>, num |-> NaN, value |-> Num(300) ] }
           [] OTHER ->
                { [ txt |-> << "1", ".", "6" >>, num |-> NaN, value |-> Num(160) ],
                  [ txt |-> << "2", ".", "0", " ", "t", "u", "r", "b", "o" >>, num |-> NaN, value |-> Num(200) ],
                  [ txt |-> << "m", "o", "t", "o", "r", " ", "1", ".", "0" >>, num |-> NaN, value |-> Num(100) ],
                  [ txt |-> << "0", ".", "4" >>, num |-> NaN, value |-> Num(40) ],
                  [ txt |-> << "0", ".", "5" >>, num |-> NaN, value |-> Num(50) ],
                  [ txt |-> << "1", "0" >>, num |-> NaN, value |-> Num(1000) ],
                  [ txt |-> << "1", "0", ".", "5" >>, num |-> NaN, value |-> Num(1050) ],
                  [ txt |-> << "1", "5" >>, num |-> NaN, value |-> Num(1500) ],
                  [ txt |-> << "f", "l", "e", "x" >>, num |-> NaN, value |-> NaN ],
                  [ txt |-> NullStr, num |-> NaN, value |-> NaN ],
                  [ txt |-> << "-", "1", ".", "6" >>, num |-> NaN, value |-> Num(-160) ],
                  [ txt |-> << "2", "." >>, num |-> NaN, value |-> Num(200) ],
                  [ txt |-> << "0" >>, num |-> NaN, value |-> Num(0) ],
                  [ txt |-> << "1", ".", "2", "5" >>, num |-> NaN, value |-> Num(125) ] }
    /\ rg_out = NaN
    /\ rg_rows = 1
    /\ rg_pc = "start"

\* clean_km: km_clean from the text km_list, quilometragem_clean from the
\* number quilometragem; both null outside [0, 1000000]
CleanKm ==
    /\ rg_pc = "start"
    /\ rg_col \in { "km_list", "quilometragem" }
    /\ rg_out' =
         IF rg_col = "km_list"
         THEN LET s1 == RemoveChars(AsStr(rg_raw.txt), { "k", "m", "." })
                  v  == ToNumeric(Strip(ReplaceChar(s1, ",", ".")))
              IN  IF IsNum(v) /\ (Val(v) < 0 \/ Val(v) > 100 * KM_MAX) THEN NaN ELSE v
         ELSE LET v == CleanKmValue(rg_raw.num)
              IN  IF IsNum(v) THEN Num(100 * Val(v)) ELSE NaN
    /\ rg_pc' = "done"
    /\ UNCHANGED << rg_col, rg_raw, rg_rows, boVars, trVars, svVars, stVars,
                    cqVars, priceVars, derVars, bkVars, plVars, locVars, clVars >>

\* clean_motor: motor_clean from motor_list, potencia_clean from
\* potência_do_motor; null below 0.5 and above 10
CleanMotor ==
    /\ rg_pc = "start"
    /\ rg_col \in { "motor_list", "potencia_do_motor" }
    /\ rg_out' =
         LET tok == FirstNumber(AsStr(rg_raw.txt), TRUE)
             v   == IF tok = << >> THEN NaN ELSE ToNumeric(tok)
         IN  IF IsNum(v) /\ (Val(v) < MOTOR_MIN \/ Val(v) > MOTOR_MAX) THEN NaN ELSE v
    /\ rg_pc' = "done"
    /\ UNCHANGED << rg_col, rg_raw, rg_rows, boVars, trVars, svVars, stVars,
                    cqVars, priceVars, derVars, bkVars, plVars, locVars, clVars >>

\* clean_portas: portas_clean from portas; null below 2 and above 5
CleanPortas ==
    /\ rg_pc = "start"
    /\ rg_col = "portas"
    /\ rg_out' =
         LET tok == FirstNumber(AsStr(rg_raw.txt), FALSE)
             v   == IF tok = << >> THEN NaN ELSE ToNumeric(tok)
         IN  IF IsNum(v) /\ (Val(v) < PORTAS_MIN \/ Val(v) > PORTAS_MAX) THEN NaN ELSE v
    /\ rg_pc' = "done"
    /\ UNCHANGED << rg_col, rg_raw, rg_rows, boVars, trVars, svVars, stVars,
                    cqVars, priceVars, derVars, bkVars, plVars, locVars, clVars >>

SpecRange == InitRange /\ [][CleanKm \/ CleanMotor \/ CleanPortas]_vars

\* C26: every non-null cleaned mileage lies in [0, 1000000], every non-null
\* engine size and power in [0.5, 10], every non-null door count is one of
\* 2, 3, 4, 5; a raw value outside its range or without a numeric token
\* becomes null, and the row stays in the table.
C26_SecondaryRanges ==
    rg_pc = "done" =>
        LET lo == CASE rg_col \in { "km_list", "quilometragem" } -> 0
                    [] rg_col = "portas" -> PORTAS_MIN
                    [] OTHER -> MOTOR_MIN
            hi == CASE rg_col \in { "km_list", "quilometragem" } -> 100 * KM_MAX
                    [] rg_col = "portas" -> PORTAS_MAX
                    [] OTHER -> MOTOR_MAX
        IN  /\ rg_rows = 1
            /\ IsNum(rg_out) =>
                   /\ Val(rg_out) >= lo
                   /\ Val(rg_out) <= hi
                   /\ rg_col = "portas" => Val(rg_out) % 100 = 0
            /\ (\/ ~IsNum(rg_raw.value)
                \/ Val(rg_raw.value) < lo
                \/ Val(rg_raw.value) > hi) => rg_out = NaN

-----------------------------------------------------------------------------
(* Specification of concurrent predictions: handlers of POST /predict run  *)
(* against one loaded model_loader, their steps interleaved in any order.  *)

\* how many requests are in flight
InFlight == 2

\* The service has started with an artifact and a cleaned table on disk
\* (model_loader.py lines 17-62); every handler has received its request.
InitConc ==
    /\ Idle(Groups \ { "cq" })
    /\ \E c \in ServeCorpora : \E T \in TopSets(c.brands) :
           LET kept(x) == x.name \notin COLS_TO_DROP
           IN  cq_loaded = [ top |-> { T }, rare |-> { RareStates(c.states) },
                             expected |-> { SelectSeq(c.cols, kept) } ]
    /\ cq_req \in [ 1..InFlight -> { car \in Requests : car.air_bag = "unset" } ]
    /\ cq_row = [ r \in 1..InFlight |-> << >> ]
    /\ cq_resp = [ r \in 1..InFlight |-> [ status |-> 0, from |-> << >> ] ]
    /\ cq_pc = [ r \in 1..InFlight |-> "received" ]

BuildRowShared(r) ==
    /\ cq_pc[r] = "received"
    /\ cq_row' = [ q \in 1..InFlight |->
                     prepare_features(cq_req[r], cq_loaded.top, cq_loaded.rare,
                                      cq_loaded.expected) ]
    /\ cq_pc' = [ cq_pc EXCEPT ![r] = "built" ]
    /\ UNCHANGED << cq_loaded, cq_req, cq_resp, boVars, trVars, svVars, stVars, rgVars,
                    priceVars, derVars, bkVars, plVars, locVars, clVars >>

\* main.py line 62: features_df = feature_processor.prepare_features(car);
\* features_dict and df are locals of the call, the loader is only read
BuildRow(r) ==
    /\ cq_pc[r] = "received"
    /\ cq_row' = [ cq_row EXCEPT ![r] =
                     prepare_features(cq_req[r], cq_loaded.top, cq_loaded.rare,
                                      cq_loaded.expected) ]
    /\ cq_pc' = [ cq_pc EXCEPT ![r] = "built" ]
    /\ UNCHANGED << cq_loaded, cq_req, cq_resp, boVars, trVars, svVars, stVars, rgVars,
                    priceVars, derVars, bkVars, plVars, locVars, clVars >>

\* main.py lines 65-74: model.predict(features_df) and the response; the
\* prediction is a function of the row, which stands for it here
Respond(r) ==
    /\ cq_pc[r] = "built"
    /\ cq_resp' = [ cq_resp EXCEPT ![r] = [ status |-> 200, from |-> cq_row[r] ] ]
    /\ cq_pc' = [ cq_pc EXCEPT ![r] = "done" ]
    /\ UNCHANGED << cq_loaded, cq_req, cq_row, boVars, trVars, svVars, stVars, rgVars,
                    priceVars, derVars, bkVars, plVars, locVars, clVars >>

SpecConc ==
    InitConc /\ [][\E r \in 1..InFlight : BuildRow(r) \/ Respond(r)]_vars

\* C25: no step of a prediction changes what the loader holds, and under
\* every interleaving each request answers from the row built from its own
\* fields, as it would if it ran alone.
C25_RequestsIsolated ==
    [][ /\ cq_loaded' = cq_loaded
        /\ \A r \in 1..InFlight :
               cq_pc'[r] = "done" =>
                   cq_resp'[r] =
                       [ status |-> 200,
                         from |-> prepare_features(cq_req'[r], cq_loaded.top,
                                                   cq_loaded.rare,
                                                   cq_loaded.expected) ] ]_vars

\* two different requests, both answered, each from another row
C25_Witness ==
    /\ \A r \in 1..InFlight : cq_pc[r] = "done"
    /\ cq_req[1] # cq_req[2]
    /\ cq_resp[1].from # cq_resp[2].from
    /\ cq_resp[1].from = cq_row[1]

=============================================================================
